---- MODULE Spec2Model ----
(***************************************************************************)
(* Audio timeline and batch transcription controller of STT_Agent_Rust.   *)
(* The React pages are modelled as state machines: one variable per       *)
(* useState cell, one action per event handler or per continuation of an  *)
(* awaited backend call.  Text is a sequence of one-character strings so  *)
(* that trim, slice and the input masks are computed as the code does.    *)
(* Times are integers in units of 1/UnitsPerSec second.                   *)
(***************************************************************************)
EXTENDS Integers, Sequences, FiniteSets, TLC

VARIABLES
    page,              \* which page component the behaviour is about
    segments,          \* useState<Segment[]>
    nextId,            \* useState(2)
    markPoint1,        \* useState<number | null>
    markPoint2,        \* useState<number | null>
    segmentNameInput,  \* useState("")
    duration,          \* useState(0)
    currentTime,       \* useState(0)
    isPlaying,         \* useState(false)
    isLoaded,          \* useState(false)
    loading,           \* useState(false)
    output,            \* useState("")
    folderPath,        \* useState("")
    fileList,          \* useState<string[]>([])
    selectedFile,      \* useState("")
    audioFilePath,     \* useState("") (SplitPage)
    pendingLists,      \* list_audio_files calls in flight (their dirPath)
    pendingLoads,      \* load_track calls in flight (their file)
    pendingSilence,    \* apply_silence_command calls in flight (their payload)
    sentRequests,      \* number of apply_silence_command calls issued
    reportFolder,      \* localStorage item latest_report_folder
    isSeeking,         \* useState(false)
    bePos,             \* the audio engine's playback position
    bePlaying,         \* the audio engine's playing flag
    polls,             \* get_playback_state calls in flight
    timerArmed,        \* a poll timer of the current effect closure is pending
    seeks,             \* seek calls in flight
    plays,             \* play and pause calls in flight
    isConnected,       \* useState<boolean | null>(null), as "null", "true", "false"
    batchFolder,       \* useState("")
    batchFiles,        \* useState<string[]>([])
    batchSelected,     \* useState<Set<string>>, in insertion order
    batchProgress,     \* useState<{[key: string]: status}>({})
    isBatchRunning,    \* useState(false)
    runs,              \* startBatchTranscription calls that have not returned
    picks,             \* selectBatchFolderAction calls that have not returned
    connects,          \* connect_server calls in flight (their outcome is drawn on return)
    lastLoadedRef,     \* useRef: the file handleLoadTrack loaded last
    outcomes,          \* history: how each file of the current run ended
    sent,              \* history: the files handed to transcribe_audio in the current run
    wiped,             \* history: batchProgress was reset while the current run was going
    currentProject,    \* what get_current_project_cmd returns, "" for null
    cache,             \* the transcript files on disk: path of the file |-> its content
    results,           \* useState<TranscribeResponse | null>(null), <<>> for null
    selectedIndices,   \* useState<Set<number>>(new Set())
    lookups,           \* tryLoadTranscript calls that have not returned (their fullPath)
    reviewSilence,     \* apply_silence_command calls of handleSilenceSelected in flight
    op,                \* history: the handler that ran last and what it found
    usedIds            \* history: ids handed out since the list was last reset

segVars == <<page, segments, nextId, markPoint1, markPoint2, segmentNameInput,
             duration, currentTime, isPlaying, isLoaded, loading, output,
             folderPath, fileList, selectedFile, audioFilePath, pendingLists,
             pendingLoads, pendingSilence, sentRequests, op,
             usedIds>>

pollV == <<isSeeking, bePos, bePlaying, polls, timerArmed, seeks, plays>>

batchV == <<isConnected, batchFolder, batchFiles, batchSelected, batchProgress,
            isBatchRunning, runs, picks, connects, lastLoadedRef, outcomes, sent,
            wiped>>

reviewV == <<currentProject, cache, results, selectedIndices, lookups, reviewSilence>>

vars == <<segVars, reportFolder, pollV, batchV, reviewV>>

----------------------------------------------------------------------------
(* Bounds of the model                                                     *)

MaxId == 3          \* add/confirm are disabled once nextId exceeds this
MaxLen == 2         \* add/confirm are disabled once the list is this long
MaxPending == 1     \* backend calls of one kind in flight at a time
MaxRequests == 1    \* redaction requests issued in one behaviour
MaxRuns == 2        \* activations of the batch function at a time
MaxRaw == 7         \* characters of a raw time code typed at once

(* Program constants                                                       *)

CentisPerSec == 100                \* formatTime: Math.floor((seconds % 1) * 100)
UnitsPerSec == 2 * CentisPerSec    \* resolution of a time value: half a centisecond
NULL == -1          \* JavaScript null for number | null cells

Files == {"a"}
Folders == {"dir"}
Listings == {<<>>, <<"a">>}
Durations == {0, 141}
MarkTimes == {0, 141}
Labels == {<<" ", "a">>}
RawNotes == {<<"a">>}
RawTimes == {<<"0", "0", "0", "0", "0", "0", ".", "0", "0">>}

----------------------------------------------------------------------------
(* JavaScript string primitives on sequences of characters                 *)

DigitOf == <<"0", "1", "2", "3", "4", "5", "6", "7", "8", "9">>
DigitChars == {DigitOf[i] : i \in 1..10}

Min(a, b) == IF a <= b THEN a ELSE b
Max(a, b) == IF a >= b THEN a ELSE b

NormIndex(i, n) == IF i < 0 THEN Max(n + i, 0) ELSE Min(i, n)

\* String.prototype.slice(from, to), 0-based, negative indices from the end
Slice(s, from, to) ==
    LET a == NormIndex(from, Len(s))
        b == NormIndex(to, Len(s))
    IN  IF b <= a THEN <<>> ELSE SubSeq(s, a + 1, b)

SliceFrom(s, from) == Slice(s, from, Len(s))

\* String.prototype.indexOf(c): 0-based, -1 when absent
IndexOf(s, c) ==
    IF \E i \in 1..Len(s) : s[i] = c
    THEN (CHOOSE i \in 1..Len(s) : s[i] = c /\ \A j \in 1..(i - 1) : s[j] # c) - 1
    ELSE -1

Includes(s, c) == \E i \in 1..Len(s) : s[i] = c
EndsWith(s, c) == Len(s) > 0 /\ s[Len(s)] = c

IsDigit(c) == c \in DigitChars
IsDigitDotOrColon(c) == c \in DigitChars \cup {".", ":"}
IsDigitOrDot(c) == c \in DigitChars \cup {"."}
IsNotDot(c) == c # "."
IsSpace(c) == c = " "

RECURSIVE TrimStart(_)
TrimStart(s) == IF Len(s) > 0 /\ IsSpace(Head(s)) THEN TrimStart(Tail(s)) ELSE s

RECURSIVE TrimEnd(_)
TrimEnd(s) ==
    IF Len(s) > 0 /\ IsSpace(s[Len(s)]) THEN TrimEnd(SubSeq(s, 1, Len(s) - 1)) ELSE s

\* String.prototype.trim()
Trim(s) == TrimEnd(TrimStart(s))

RECURSIVE NumStr(_)
\* Number.prototype.toString() of a natural number
NumStr(n) ==
    IF n < 10 THEN <<DigitOf[n + 1]>>
    ELSE NumStr(n \div 10) \o <<DigitOf[(n % 10) + 1]>>

\* n.toString().padStart(2, "0")
Pad2(n) == IF Len(NumStr(n)) < 2 THEN <<"0">> \o NumStr(n) ELSE NumStr(n)

----------------------------------------------------------------------------
(* Time code formatter and time display                                    *)

GroupDigitsFromLeft(integers) ==
    IF Len(integers) <= 2 THEN integers
    ELSE IF Len(integers) <= 4
         THEN Slice(integers, 0, 2) \o <<":">> \o SliceFrom(integers, 2)
         ELSE Slice(integers, 0, 2) \o <<":">> \o Slice(integers, 2, 4)
              \o <<":">> \o SliceFrom(integers, 4)

\* the grouping shared by both input masks: SS, M..:SS, H..:MM:SS
GroupDigits(integers) ==
    IF Len(integers) <= 2 THEN integers
    ELSE IF Len(integers) <= 4
         THEN Slice(integers, 0, -2) \o <<":">> \o SliceFrom(integers, -2)
         ELSE Slice(integers, 0, -4) \o <<":">> \o Slice(integers, -4, -2)
              \o <<":">> \o SliceFrom(integers, -2)

\* SilencePage formatTimeString: digits and one decimal point
formatTimeString(input) ==
    LET cleaned0 == SelectSeq(input, IsDigitOrDot)
        firstDotIndex == IndexOf(cleaned0, ".")
        cleaned == IF firstDotIndex # -1
                   THEN Slice(cleaned0, 0, firstDotIndex + 1)
                        \o SelectSeq(SliceFrom(cleaned0, firstDotIndex + 1), IsNotDot)
                   ELSE cleaned0
        dot == IndexOf(cleaned, ".")
        integers0 == IF dot # -1 THEN Slice(cleaned, 0, dot) ELSE cleaned
        hasDecimals == dot # -1
        decimals == IF dot # -1 THEN SliceFrom(cleaned, dot + 1) ELSE <<>>
        integers == IF Len(integers0) > 6 THEN Slice(integers0, 0, 6) ELSE integers0
        formattedInt == GroupDigits(integers)
    IN  IF hasDecimals THEN formattedInt \o <<".">> \o Slice(decimals, 0, 2)
        ELSE IF EndsWith(input, ".") /\ ~Includes(formattedInt, ".")
             THEN formattedInt \o <<".">>
             ELSE formattedInt

\* SplitPage formatTimeString: digits only
formatTimeStringDigits(input) ==
    LET digits == SelectSeq(input, IsDigit)
        limited == Slice(digits, 0, 6)
    IN  GroupDigits(limited)

\* SplitPage formatTime: HH:MM:SS, truncating
formatTimeHMS(t) ==
    LET seconds == t \div UnitsPerSec
        hours == seconds \div 3600
        mins == (seconds % 3600) \div 60
        secs == seconds % 60
    IN  Pad2(hours) \o <<":">> \o Pad2(mins) \o <<":">> \o Pad2(secs)

\* SilencePage formatTime: HH:MM:SS.cc, truncating
formatTime(t) ==
    LET ms == ((t % UnitsPerSec) * CentisPerSec) \div UnitsPerSec
    IN  formatTimeHMS(t) \o <<".">> \o Pad2(ms)

FormatMark(t) == IF page = "SplitPage" THEN formatTimeHMS(t) ELSE formatTime(t)
FormatField(v) == IF page = "SplitPage" THEN formatTimeStringDigits(v) ELSE formatTimeString(v)

----------------------------------------------------------------------------
(* State shared by SilencePage.tsx, its marking version (part_002) and     *)
(* SplitPage.tsx.  The Segment record has the fields id, note, startTime   *)
(* and endTime; SplitPage calls the note field "name".                     *)

BlankSegment(id) == [id |-> id, note |-> <<>>, startTime |-> <<>>, endTime |-> <<>>]

Phase ==
    IF markPoint1 = NULL THEN "Idle"
    ELSE IF markPoint2 = NULL THEN "Point1Set" ELSE "Point2Set"

NoOp == [name |-> "init", phase |-> "-", arg |-> 0, len |-> 0, n |-> 0]

\* the history record of a handler call: its name; for the marking handlers
\* the phase it found; for a mark its time and its rank in the run of
\* consecutive effective marks that started in Idle (4 stands for 4 or
\* more); for delete the length of the list it found
Called(name, arg) ==
    [name |-> IF name \in {"mark", "cancel", "confirm", "delete", "runSilence",
                            "lookupFailed"}
              THEN name ELSE "other",
     phase |-> IF name \in {"mark", "cancel", "confirm"} THEN Phase ELSE "-",
     arg |-> arg,
     len |-> IF name = "delete" THEN Len(segments) ELSE 0,
     n |-> IF name # "mark" \/ duration = 0 THEN 0
           ELSE IF Phase = "Idle" THEN 1
           ELSE IF op.name = "mark" /\ op.n > 0
                THEN (IF op.n < 4 THEN op.n + 1 ELSE 4)
                ELSE 0]

Ran(name) == Called(name, 0)

markV == <<markPoint1, markPoint2, segmentNameInput>>
listV == <<segments, nextId, usedIds>>
playerV == <<duration, currentTime, isPlaying, isLoaded>>
fileV == <<folderPath, fileList, selectedFile, audioFilePath>>
reqV == <<pendingSilence, sentRequests, reportFolder>>

\* the empty status map {}
NoProgress == [f \in {} |-> "pending"]

InitPageIn(p, project, disk) ==
    /\ page = p
    /\ segments = <<BlankSegment(1)>>
    /\ nextId = 2
    /\ markPoint1 = NULL
    /\ markPoint2 = NULL
    /\ segmentNameInput = <<>>
    /\ duration = 0
    /\ currentTime = 0
    /\ isPlaying = FALSE
    /\ isLoaded = FALSE
    /\ loading = FALSE
    /\ output = ""
    /\ folderPath = ""
    /\ fileList = <<>>
    /\ selectedFile = ""
    /\ audioFilePath = ""
    /\ pendingLists = <<>>
    /\ pendingLoads = <<>>
    /\ pendingSilence = <<>>
    /\ sentRequests = 0
    /\ op = NoOp
    /\ usedIds = {1}
    /\ reportFolder = ""
    /\ isSeeking = FALSE
    /\ bePos = 0
    /\ bePlaying = FALSE
    /\ polls = <<>>
    /\ timerArmed = FALSE
    /\ seeks = <<>>
    /\ plays = <<>>
    /\ isConnected = "null"
    /\ batchFolder = ""
    /\ batchFiles = <<>>
    /\ batchSelected = <<>>
    /\ batchProgress = NoProgress
    /\ isBatchRunning = FALSE
    /\ runs = <<>>
    /\ picks = <<>>
    /\ connects = IF p = "SilenceAutoPage" THEN 1 ELSE 0
    /\ lastLoadedRef = ""
    /\ outcomes = NoProgress
    /\ sent = <<>>
    /\ wiped = FALSE
    /\ currentProject = project
    /\ cache = disk
    /\ results = <<>>
    /\ selectedIndices = {}
    /\ lookups = {}
    /\ reviewSilence = <<>>

\* the pages as they are mounted, a project being open
InitPage(p) == InitPageIn(p, "proj", NoProgress)

RemoveAt(s, i) == SubSeq(s, 1, i - 1) \o SubSeq(s, i + 1, Len(s))

CancelAll(inflight) ==
    [i \in DOMAIN inflight |-> [inflight[i] EXCEPT !.cancelled = TRUE]]

PollEffectIgnoringSeek(playing, seeking, inflight) ==
    IF playing = isPlaying /\ seeking = isSeeking
    THEN polls' = inflight /\ UNCHANGED timerArmed
    ELSE polls' = CancelAll(inflight) /\ timerArmed' = playing

\* the poll effect with dependencies [isPlaying, isSeeking], given the values
\* the handler sets and the polls left in flight: when a dependency changes
\* the cleanup runs (isCancelled = true and clearTimeout on SilenceAutoPage,
\* clearInterval elsewhere) and the effect starts the next timer
PollEffect(playing, seeking, inflight) ==
    IF playing = isPlaying /\ seeking = isSeeking
    THEN polls' = inflight /\ UNCHANGED timerArmed
    ELSE polls' = CancelAll(inflight) /\ timerArmed' = (playing /\ ~seeking)

----------------------------------------------------------------------------
(* Segment List Manager                                                    *)

newSegmentIdFromLength == Len(segments) + 1

\* the id given to a segment that add or confirm creates
newSegmentId == nextId

addSegment ==
    /\ nextId <= MaxId
    /\ Len(segments) < MaxLen
    /\ segments' = Append(segments, BlankSegment(newSegmentId))
    /\ nextId' = nextId + 1
    /\ usedIds' = usedIds \cup {newSegmentId}
    /\ op' = Ran("add")
    /\ UNCHANGED <<page, reviewV,
                   pollV, batchV, markV, playerV, loading, output, fileV, pendingLists,
                   pendingLoads, reqV>>

FilterOutId(segs, id) ==
    LET Keep(s) == s.id # id IN SelectSeq(segs, Keep)

deleteSegmentUnguarded(segs, id) == FilterOutId(segs, id)

deleteSegment(segs, id) == IF Len(segs) > 1 THEN FilterOutId(segs, id) ELSE segs

DeleteSegment ==
    \E id \in 1..MaxId :
        /\ segments' = deleteSegment(segments, id)
        /\ op' = Ran("delete")
        /\ UNCHANGED <<page, reviewV,
                       pollV, batchV, nextId, usedIds, markV, playerV, loading, output, fileV,
                       pendingLists, pendingLoads, reqV>>

updateSegmentEveryRow(segs, id, field, value) ==
    LET formattedValue ==
            IF field \in {"startTime", "endTime"} THEN FormatField(value) ELSE value
    IN  [i \in DOMAIN segs |-> [segs[i] EXCEPT ![field] = formattedValue]]

updateSegment(segs, id, field, value) ==
    LET formattedValue ==
            IF field \in {"startTime", "endTime"} THEN FormatField(value) ELSE value
    IN  [i \in DOMAIN segs |->
            IF segs[i].id = id THEN [segs[i] EXCEPT ![field] = formattedValue]
            ELSE segs[i]]

\* the text typed into a field.  Time codes are typed on SilencePage.tsx,
\* whose submit reads them; on the marking pages the inputs drawn are notes
\* only, and the time fields hold what mark-confirm wrote
Typed(field) ==
    IF field = "note" THEN RawNotes
    ELSE IF page = "SilencePage" THEN RawTimes ELSE {}

UpdateSegment ==
    \E i \in DOMAIN segments, field \in {"note", "startTime", "endTime"} :
        \E value \in Typed(field) :
            /\ segments' = updateSegment(segments, segments[i].id, field, value)
            /\ op' = Ran("update")
            /\ UNCHANGED <<page, reviewV,
                           pollV, batchV, nextId, usedIds, markV, playerV, loading, output,
                           fileV, pendingLists, pendingLoads, reqV>>

----------------------------------------------------------------------------
(* Segment Marking State Machine (part_002 and SplitPage)                  *)

PopupShown == markPoint1 # NULL /\ markPoint2 # NULL /\ duration > 0

contextMenuThirdKeepsPair(t) ==
    IF duration = 0 THEN UNCHANGED markV
    ELSE IF markPoint1 = NULL
         THEN markPoint1' = t /\ markPoint2' = NULL /\ segmentNameInput' = <<>>
         ELSE IF markPoint2 = NULL
              THEN markPoint2' = t /\ UNCHANGED <<markPoint1, segmentNameInput>>
              ELSE markPoint2' = t /\ UNCHANGED <<markPoint1, segmentNameInput>>

contextMenu(t) ==
    IF duration = 0 THEN UNCHANGED markV
    ELSE IF markPoint1 = NULL
         THEN markPoint1' = t /\ markPoint2' = NULL /\ segmentNameInput' = <<>>
         ELSE IF markPoint2 = NULL
              THEN markPoint2' = t /\ UNCHANGED <<markPoint1, segmentNameInput>>
              ELSE markPoint1' = t /\ markPoint2' = NULL /\ segmentNameInput' = <<>>

handleContextMenu(t) ==
    /\ page \in {"part_002", "SplitPage"}
    /\ isLoaded
    /\ t <= duration
    /\ contextMenu(t)
    /\ op' = Called("mark", t)
    /\ UNCHANGED <<page, reviewV,
                   pollV, batchV, listV, playerV, loading, output, fileV, pendingLists,
                   pendingLoads, reqV>>

HandleContextMenu == \E t \in MarkTimes : handleContextMenu(t)

SetSegmentNameInput ==
    \E v \in Labels :
        /\ page \in {"part_002", "SplitPage"}
        /\ isLoaded
        /\ PopupShown
        /\ segmentNameInput' = v
        /\ op' = Ran("label")
        /\ UNCHANGED <<page, reviewV,
                       pollV, batchV, listV, markPoint1, markPoint2, playerV, loading, output,
                       fileV, pendingLists, pendingLoads, reqV>>

cancelMarkKeepsLabel ==
    markPoint1' = NULL /\ markPoint2' = NULL /\ UNCHANGED segmentNameInput

cancelMark ==
    markPoint1' = NULL /\ markPoint2' = NULL /\ segmentNameInput' = <<>>

handleCancelMark ==
    /\ page \in {"part_002", "SplitPage"}
    /\ cancelMark
    /\ op' = Called("cancel", Len(segmentNameInput))
    /\ UNCHANGED <<page, reviewV,
                   pollV, batchV, listV, playerV, loading, output, fileV, pendingLists,
                   pendingLoads, reqV>>

confirmedSegmentUnordered(id, p1, p2, label) ==
    [id |-> id, note |-> Trim(label),
     startTime |-> FormatMark(p1), endTime |-> FormatMark(p2)]

confirmedSegment(id, p1, p2, label) ==
    [id |-> id, note |-> Trim(label),
     startTime |-> FormatMark(Min(p1, p2)), endTime |-> FormatMark(Max(p1, p2))]

handleConfirmMark ==
    /\ page \in {"part_002", "SplitPage"}
    /\ IF markPoint1 = NULL \/ markPoint2 = NULL
       THEN UNCHANGED <<listV, markV>>
       ELSE /\ nextId <= MaxId
            /\ Len(segments) < MaxLen
            /\ segments' = Append(segments,
                   confirmedSegment(newSegmentId, markPoint1, markPoint2,
                                    segmentNameInput))
            /\ nextId' = nextId + 1
            /\ usedIds' = usedIds \cup {newSegmentId}
            /\ cancelMark
    /\ op' = Called("confirm", IF markPoint1 > markPoint2 THEN 1 ELSE 0)
    /\ UNCHANGED <<page, reviewV, pollV, batchV, playerV, loading, output, fileV, pendingLists,
                   pendingLoads, reqV>>

----------------------------------------------------------------------------
(* Folder, file list and track loading                                     *)

\* handleLoadTrack up to its await: part_002 resets the list and the marks
loadTrackStart(folder, filename) ==
    IF folder = "" \/ filename = ""
    THEN UNCHANGED <<listV, markV, pendingLoads>>
    ELSE /\ Len(pendingLoads) < MaxPending
         /\ pendingLoads' = Append(pendingLoads, filename)
         /\ IF page = "part_002"
            THEN /\ segments' = <<BlankSegment(1)>>
                 /\ nextId' = 2
                 /\ usedIds' = {1}
                 /\ cancelMark
            ELSE UNCHANGED <<listV, markV>>

\* handleLoadTrack(folder, filename) called as the load operation
HandleLoadTrack ==
    \E folder \in Folders, filename \in Files :
        /\ page = "part_002"
        /\ loadTrackStart(folder, filename)
        /\ loading' = TRUE
        /\ op' = Ran("load")
        /\ UNCHANGED <<page, reviewV, pollV, batchV, playerV, output, fileV, pendingLists, reqV>>

\* handleSelectFolder from the moment the folder dialog returns, and
\* loadFileList up to its await
HandleSelectFolder ==
    \E selected \in Folders :
        /\ page \in {"SilencePage", "part_002"}
        /\ Len(pendingLists) < MaxPending
        /\ folderPath' = selected
        /\ loading' = TRUE
        /\ pendingLists' = Append(pendingLists, selected)
        /\ op' = Ran("selectFolder")
        /\ UNCHANGED <<page, reviewV,
                       pollV, batchV, listV, markV, playerV, output, fileList, selectedFile,
                       audioFilePath, pendingLoads, reqV>>

\* loadFileList after list_audio_files returned files or threw
ListFilesReturn ==
    \E i \in DOMAIN pendingLists, threw \in BOOLEAN, files \in Listings :
        /\ pendingLists' = RemoveAt(pendingLists, i)
        /\ op' = Ran("listReturn")
        /\ IF threw
           THEN /\ output' = "listError"
                /\ loading' = FALSE
                /\ UNCHANGED <<listV, markV, pendingLoads, fileList,
                               selectedFile, isLoaded>>
           ELSE /\ fileList' = files
                /\ IF Len(files) > 0
                   THEN /\ selectedFile' = files[1]
                        /\ loadTrackStart(pendingLists[i], files[1])
                        /\ loading' = FALSE
                        /\ UNCHANGED <<isLoaded, output>>
                   ELSE /\ selectedFile' = ""
                        /\ isLoaded' = FALSE
                        /\ output' = "listEmpty"
                        /\ loading' = FALSE
                        /\ UNCHANGED <<listV, markV, pendingLoads>>
        /\ UNCHANGED <<page, reviewV, pollV, batchV, duration, currentTime, isPlaying, folderPath,
                       audioFilePath, reqV>>

HandleFileChange ==
    \E i \in DOMAIN fileList :
        /\ page \in {"SilencePage", "part_002"}
        /\ folderPath # ""
        /\ Len(pendingLoads) < MaxPending
        /\ selectedFile' = fileList[i]
        /\ loadTrackStart(folderPath, fileList[i])
        /\ loading' = TRUE
        /\ op' = Ran("fileChange")
        /\ UNCHANGED <<page, reviewV,
                       pollV, batchV, playerV, output, folderPath, fileList, audioFilePath,
                       pendingLists, reqV>>

\* SplitPage handleLoadTrack from the moment the file dialog returns a file
SplitHandleLoadTrack ==
    \E selected \in Files :
        /\ page = "SplitPage"
        /\ Len(pendingLoads) < MaxPending
        /\ loading' = TRUE
        /\ output' = "loading"
        /\ pendingLoads' = Append(pendingLoads, selected)
        /\ op' = Ran("splitLoad")
        /\ UNCHANGED <<page, reviewV,
                       pollV, batchV, listV, markV, playerV, fileV, pendingLists, reqV>>

loadTrackReturnMarksLoaded(i, threw, dur) ==
    IF threw
    THEN /\ isLoaded' = TRUE
         /\ UNCHANGED <<duration, currentTime, isPlaying, bePos, bePlaying, polls,
                        timerArmed>>
    ELSE /\ duration' = dur
         /\ currentTime' = 0
         /\ isLoaded' = TRUE
         /\ isPlaying' = FALSE
         /\ PollEffect(FALSE, isSeeking, polls)
         /\ bePos' = 0
         /\ bePlaying' = FALSE

\* the player state after load_track returned: the try block or nothing
loadTrackReturn(i, threw, dur) ==
    IF threw
    THEN UNCHANGED <<playerV, bePos, bePlaying, polls, timerArmed>>
    ELSE /\ duration' = dur
         /\ currentTime' = 0
         /\ isLoaded' = TRUE
         /\ isPlaying' = FALSE
         /\ PollEffect(FALSE, isSeeking, polls)
         /\ bePos' = 0
         /\ bePlaying' = FALSE

\* handleLoadTrack after load_track returned a duration or threw; the engine
\* has then stopped at position 0 of the new track.  On SilenceAutoPage
\* output stands for the newest line that the player handlers added to the
\* log
LoadTrackReturnOf(i, threw, dur) ==
    /\ i \in DOMAIN pendingLoads
    /\ pendingLoads' = RemoveAt(pendingLoads, i)
    /\ loading' = IF page = "SilenceAutoPage" THEN loading ELSE FALSE
    /\ op' = Ran("loadReturn")
    /\ loadTrackReturn(i, threw, dur)
    /\ output' = IF threw THEN "loadError" ELSE "loaded"
    /\ audioFilePath' = IF ~threw /\ page = "SplitPage" THEN pendingLoads[i]
                        ELSE audioFilePath
    /\ UNCHANGED <<page, reviewV, batchV, isSeeking, seeks, plays, listV, markV,
                   folderPath, fileList, selectedFile, pendingLists, reqV>>

LoadTrackReturn ==
    \E i \in DOMAIN pendingLoads, threw \in BOOLEAN, dur \in Durations :
        LoadTrackReturnOf(i, threw, dur)

----------------------------------------------------------------------------
(* Segment list and marking: part_002 and SplitPage                        *)

InitSeg == \E p \in {"part_002", "SplitPage"} : InitPage(p)

NextSeg ==
    \/ addSegment
    \/ DeleteSegment
    \/ UpdateSegment
    \/ HandleContextMenu
    \/ SetSegmentNameInput
    \/ handleCancelMark
    \/ handleConfirmMark
    \/ HandleLoadTrack
    \/ SplitHandleLoadTrack
    \/ LoadTrackReturn

SpecSeg == InitSeg /\ [][NextSeg]_vars

SegmentIds == {segments[i].id : i \in DOMAIN segments}

\* a step after which the list is the fresh list of a newly loaded track
StartsFreshList == segments' = <<BlankSegment(1)>> /\ nextId' = 2

\* C5: the segment list has at least one entry in every reachable state, and
\* delete on a list holding a single segment leaves the list unchanged
C5_ListNeverEmpty ==
    /\ [](Len(segments) >= 1)
    /\ [][(op'.name = "delete" /\ Len(segments) = 1) => segments' = segments]_vars

\* delete was called on the single segment 2 that was left after segment 1
\* had been deleted
C5_DeleteOnSingle ==
    op.name = "delete" /\ op.len = 1 /\ Len(segments) = 1 /\ segments[1].id = 2

\* C6: within a track's list no two segments share an id, every id ever
\* handed out is below the counter, a created segment never gets an id that
\* was handed out before, and the counter only increases until a track load
\* starts a fresh list
C6_IdsNeverReused ==
    /\ [](/\ \A i, j \in DOMAIN segments : i # j => segments[i].id # segments[j].id
          /\ \A id \in SegmentIds \cup usedIds : id < nextId)
    /\ [][\/ StartsFreshList
          \/ /\ nextId' >= nextId
             /\ \A i \in DOMAIN segments' :
                    segments'[i].id \in SegmentIds \/ segments'[i].id \notin usedIds]_vars

\* mark-confirm has just created a segment while an id freed by delete exists
C6_CreatedAfterFree ==
    /\ op.name = "confirm" /\ op.phase = "Point2Set"
    /\ \E id \in usedIds : id \notin SegmentIds
    /\ segments[Len(segments)].id = nextId - 1

\* C7: on a track with non-zero duration a gesture at t in Idle sets point1,
\* in Point1Set sets point2 and keeps point1, in Point2Set discards both
\* points and the label and restarts at point1 = t; the third of three
\* consecutive gestures from Idle leaves Point1Set with point1 = t3
C7_MarkGestures ==
    [][(op'.name = "mark" /\ duration > 0) =>
          /\ Phase = "Idle" =>
                markPoint1' = op'.arg /\ markPoint2' = NULL
          /\ Phase = "Point1Set" =>
                markPoint2' = op'.arg /\ markPoint1' = markPoint1
          /\ Phase = "Point2Set" =>
                markPoint1' = op'.arg /\ markPoint2' = NULL
                /\ segmentNameInput' = <<>>
          /\ op'.n = 3 =>
                Phase' = "Point1Set" /\ markPoint1' = op'.arg
                /\ markPoint2' = NULL]_vars

\* the third consecutive gesture has just been made
C7_ThirdGesture ==
    op.name = "mark" /\ op.n = 3 /\ Phase = "Point1Set" /\ markPoint1 = op.arg

DigitVal(c) == CHOOSE d \in 0..9 : DigitOf[d + 1] = c
TwoDigits(s, i) == DigitVal(s[i]) * 10 + DigitVal(s[i + 1])

\* the time that a canonical timestamp HH:MM:SS or HH:MM:SS.cc denotes
StampTime(s) ==
    (TwoDigits(s, 1) * 3600 + TwoDigits(s, 4) * 60 + TwoDigits(s, 7)) * UnitsPerSec
    + (IF Len(s) > 8 THEN (TwoDigits(s, 10) * UnitsPerSec) \div CentisPerSec ELSE 0)

\* C8: confirm changes nothing in Idle or Point1Set; in Point2Set it appends
\* exactly one segment with the next id, the entered label with surrounding
\* white space removed, and as start and end the timestamps of
\* min(point1, point2) and max(point1, point2) truncated to the resolution of
\* the page's time display, advances the counter by one and returns to Idle
C8_ConfirmAppendsFormatted ==
    [][op'.name = "confirm" =>
          IF Phase # "Point2Set"
          THEN UNCHANGED <<segments, nextId, markV>>
          ELSE /\ segments' = Append(segments,
                      [id |-> nextId,
                       note |-> Trim(segmentNameInput),
                       startTime |-> FormatMark(Min(markPoint1, markPoint2)),
                       endTime |-> FormatMark(Max(markPoint1, markPoint2))])
               /\ nextId' = nextId + 1
               /\ Phase' = "Idle"]_vars

\* C8 as stated: the appended segment carries the entered label itself, and
\* its start and end denote min(point1, point2) and max(point1, point2)
C8_ConfirmAppendsExact ==
    [][(op'.name = "confirm" /\ Phase = "Point2Set") =>
          /\ Len(segments') = Len(segments) + 1
          /\ LET new == segments'[Len(segments')]
             IN  /\ new.id = nextId
                 /\ new.note = segmentNameInput
                 /\ StampTime(new.startTime) = Min(markPoint1, markPoint2)
                 /\ StampTime(new.endTime) = Max(markPoint1, markPoint2)
          /\ nextId' = nextId + 1
          /\ Phase' = "Idle"]_vars

\* confirm has just appended a labelled segment whose point1 was marked after
\* its point2
C8_ConfirmedReversed ==
    /\ op.name = "confirm" /\ op.phase = "Point2Set" /\ op.arg = 1
    /\ Phase = "Idle"
    /\ segments[Len(segments)].note # <<>>
    /\ segments[Len(segments)].startTime # segments[Len(segments)].endTime

\* C9: cancel from Point1Set or Point2Set returns to Idle with both points
\* and the label text cleared, and leaves the list and the counter unchanged
C9_CancelClears ==
    [][(op'.name = "cancel" /\ Phase # "Idle") =>
          /\ markPoint1' = NULL /\ markPoint2' = NULL
          /\ segmentNameInput' = <<>>
          /\ UNCHANGED <<segments, nextId>>]_vars

\* cancel has just been called in Point2Set with label text typed
C9_CancelledWithLabel ==
    /\ op.name = "cancel" /\ op.phase = "Point2Set" /\ op.arg > 0
    /\ Phase = "Idle" /\ segmentNameInput = <<>>

----------------------------------------------------------------------------
(* Redaction request builder: runSilence of SilencePage.tsx                *)

JsonNull == <<"null">>

\* segments.filter(s => s.startTime && s.endTime)
IsValidSegment(seg) == seg.startTime # <<>> /\ seg.endTime # <<>>

\* one element of the segments argument of apply_silence_command
RequestSegment(seg) ==
    [note |-> IF Trim(seg.note) = <<>> THEN JsonNull ELSE Trim(seg.note),
     startTime |-> seg.startTime,
     endTime |-> seg.endTime]

RequestOf(validSegments) ==
    [audioPath |-> <<folderPath, selectedFile>>,
     segments |-> [i \in DOMAIN validSegments |-> RequestSegment(validSegments[i])]]

\* runSilence up to its await or to its throw; the run button is disabled
\* while loading
RunSilence ==
    LET validSegments == SelectSeq(segments, IsValidSegment)
    IN  /\ page \in {"SilencePage", "part_002"}
        /\ ~loading
        /\ reportFolder' = IF folderPath # "" THEN "03_silence" ELSE reportFolder
        /\ IF Len(validSegments) > 0 /\ selectedFile # "" /\ folderPath # ""
           THEN /\ sentRequests < MaxRequests
                /\ Len(pendingSilence) < MaxPending
                /\ pendingSilence' = Append(pendingSilence, RequestOf(validSegments))
                /\ sentRequests' = sentRequests + 1
                /\ loading' = TRUE
                /\ output' = "detecting"
           ELSE /\ output' = IF selectedFile = "" THEN "errorLoadAudio"
                             ELSE IF Len(validSegments) = 0 THEN "errorSetSegment"
                             ELSE "detecting"
                /\ loading' = FALSE
                /\ UNCHANGED <<pendingSilence, sentRequests>>
        /\ op' = Ran("runSilence")
        /\ UNCHANGED <<page, reviewV, pollV, batchV, listV, markV, playerV, fileV,
                       pendingLists, pendingLoads>>

\* runSilence after apply_silence_command returned a report or threw, and
\* the effect on [output] that stores the folder of the written file
ApplySilenceReturn ==
    \E i \in DOMAIN pendingSilence, threw \in BOOLEAN :
        /\ pendingSilence' = RemoveAt(pendingSilence, i)
        /\ output' = IF threw THEN "silenceError" ELSE "silenceDone"
        /\ reportFolder' = IF threw THEN reportFolder ELSE "outputFolder"
        /\ loading' = FALSE
        /\ op' = Ran("silenceReturn")
        /\ UNCHANGED <<page, reviewV, pollV, batchV, listV, markV, playerV, fileV,
                       pendingLists, pendingLoads, sentRequests>>

InitSubmit == InitPage("SilencePage")

NextSubmit ==
    \/ addSegment
    \/ DeleteSegment
    \/ UpdateSegment
    \/ HandleSelectFolder
    \/ ListFilesReturn
    \/ HandleFileChange
    \/ LoadTrackReturn
    \/ RunSilence
    \/ ApplySilenceReturn

SpecSubmit == InitSubmit /\ [][NextSubmit]_vars

HasValidSegment == \E i \in DOMAIN segments : IsValidSegment(segments[i])

NothingSent == UNCHANGED <<pendingSilence, sentRequests>>

\* C10: a submit when no track is loaded ends with the no-track error
\* (errorLoadAudio), a submit with a track loaded and no valid segment ends
\* with the no-valid-segment error (errorSetSegment), and in both cases no
\* request is sent; a track whose load failed counts as not loaded
C10_SubmitRejected ==
    [][op'.name = "runSilence" =>
          /\ ~isLoaded => output' = "errorLoadAudio" /\ NothingSent
          /\ (isLoaded /\ ~HasValidSegment) =>
                output' = "errorSetSegment" /\ NothingSent]_vars

\* a request has been sent although no track was ever loaded
C10_SentWithoutTrack ==
    op.name = "runSilence" /\ ~isLoaded /\ sentRequests > 0 /\ pendingLoads = <<>>

\* the positions in the list of the segments with both times non-empty
ValidPositions == {i \in DOMAIN segments :
                      segments[i].startTime # <<>> /\ segments[i].endTime # <<>>}

\* the position in the list of the k-th segment with both times non-empty
ValidAt(k) ==
    CHOOSE i \in ValidPositions : Cardinality({j \in ValidPositions : j <= i}) = k

\* C11: a submit with a track loaded and at least one valid segment sends
\* exactly one request; its entries are the segments with both times
\* non-empty, one per segment and in list order, each with the segment's times
\* as they are and with null as note when the note is blank (else the note
\* without surrounding white space).
C11_RequestHoldsValidSegments ==
    [][(op'.name = "runSilence" /\ isLoaded /\ ValidPositions # {}) =>
          /\ Len(pendingSilence') = Len(pendingSilence) + 1
          /\ sentRequests' = sentRequests + 1
          /\ SubSeq(pendingSilence', 1, Len(pendingSilence)) = pendingSilence
          /\ LET entries == pendingSilence'[Len(pendingSilence')].segments
             IN  /\ Len(entries) = Cardinality(ValidPositions)
                 /\ \A k \in DOMAIN entries :
                        LET seg == segments[ValidAt(k)]
                        IN  /\ entries[k].startTime = seg.startTime
                            /\ entries[k].endTime = seg.endTime
                            /\ (\A c \in DOMAIN seg.note : IsSpace(seg.note[c]))
                                   => entries[k].note = JsonNull
                            /\ entries[k].note # JsonNull
                                   => entries[k].note = Trim(seg.note)]_vars

\* a submit with a valid segment was refused as having no track while the
\* player holds a loaded track
C11_LoadedButRefused ==
    /\ isLoaded
    /\ ValidPositions # {}
    /\ op.name = "runSilence"
    /\ output = "errorLoadAudio"
    /\ sentRequests = 0

\* C20: a submit that fails at once (no audio selected, no valid segment)
\* leaves the segment list, the loaded track, the selection and the stored
\* folder of the next stage as they were; a backend error does the same when
\* it arrives.
C20_FailedSubmitChangesNothing ==
    [][/\ (op'.name = "runSilence" /\ output' \in {"errorLoadAudio", "errorSetSegment"}) =>
              UNCHANGED <<listV, playerV, fileV, reportFolder>>
       /\ (ApplySilenceReturn /\ output' = "silenceError") =>
              UNCHANGED <<listV, playerV, fileV, reportFolder>>]_vars

\* a submit without a valid segment has failed, no request was ever sent, and
\* the folder of the next stage is stored as 03_silence
C20_FolderStoredByFailedSubmit ==
    /\ op.name = "runSilence"
    /\ output = "errorSetSegment"
    /\ sentRequests = 0
    /\ reportFolder = "03_silence"

----------------------------------------------------------------------------
(* Playback synchronisation: SilenceAutoPage.tsx, SilencePage.tsx and      *)
(* SplitPage.tsx.  A poll carries the engine state read when it was issued *)
(* and two history flags: cancelled, set by the cleanup of the effect that *)
(* issued it, and stale, set when a seek is issued while it is in flight.  *)

SKIP_SECONDS == 5
Positions == {0, 47, 141}

\* the player is drawn when a track is loaded, on SilenceAutoPage inside the
\* area drawn only while connected
PlayerShown == isLoaded /\ (page = "SilenceAutoPage" => isConnected = "true")

MarkStale(inflight) ==
    [i \in DOMAIN inflight |-> [inflight[i] EXCEPT !.stale = TRUE]]

ClearStale(inflight) ==
    [i \in DOMAIN inflight |-> [inflight[i] EXCEPT !.stale = FALSE]]

playFrame == <<page, reviewV, batchV, listV, markV, loading, fileV, pendingLists,
               pendingLoads, reqV>>

\* the timer of the poll effect fires: pollState of SilenceAutoPage up to its
\* await, the interval callback of the other pages up to its await
PollIssue ==
    /\ page \in {"SilenceAutoPage", "SilencePage", "SplitPage"}
    /\ timerArmed
    /\ Len(polls) < MaxPending
    /\ polls' = Append(polls, [position |-> bePos, is_playing |-> bePlaying,
                               cancelled |-> FALSE, stale |-> FALSE])
    /\ timerArmed' = IF page = "SilenceAutoPage" THEN FALSE ELSE timerArmed
    /\ op' = Ran("pollIssue")
    /\ UNCHANGED <<playFrame, playerV, output, isSeeking, bePos, bePlaying, seeks, plays>>

\* whether the continuation of a poll applies the state it received:
\* SilenceAutoPage applies it only if (!isCancelled)
pollApplies(poll) == page = "SilenceAutoPage" => ~poll.cancelled

\* get_playback_state returned or threw: the rest of pollState, or of the
\* interval callback
PollReturn(i, threw) ==
    LET poll == polls[i]
        rest == RemoveAt(polls, i)
        applies == ~threw /\ pollApplies(poll)
        playing == IF applies THEN poll.is_playing ELSE isPlaying
    IN  /\ page \in {"SilenceAutoPage", "SilencePage", "SplitPage"}
        /\ currentTime' = IF applies THEN poll.position ELSE currentTime
        /\ isPlaying' = playing
        /\ IF playing # isPlaying
           THEN PollEffect(playing, isSeeking, rest)
           ELSE /\ polls' = rest
                /\ timerArmed' = IF page = "SilenceAutoPage" /\ ~poll.cancelled
                                 THEN TRUE ELSE timerArmed
        /\ op' = Ran("pollReturn")
        /\ UNCHANGED <<playFrame, duration, isLoaded, output, isSeeking, bePos,
                       bePlaying, seeks, plays>>

PollReturns == \E i \in DOMAIN polls, threw \in BOOLEAN : PollReturn(i, threw)

\* onChange of the timeline slider
SliderChange ==
    \E v \in Positions :
        /\ page \in {"SilenceAutoPage", "SilencePage", "SplitPage"}
        /\ PlayerShown
        /\ v <= duration
        /\ isSeeking' = TRUE
        /\ currentTime' = v
        /\ PollEffect(isPlaying, TRUE, polls)
        /\ op' = Ran("sliderChange")
        /\ UNCHANGED <<playFrame, duration, isPlaying, isLoaded, output, bePos,
                       bePlaying, seeks, plays>>

\* onMouseUp of the timeline slider: handleSeek up to its await, then
\* setIsSeeking(false)
SliderRelease ==
    /\ page \in {"SilenceAutoPage", "SilencePage", "SplitPage"}
    /\ PlayerShown
    /\ Len(seeks) < MaxPending
    /\ seeks' = Append(seeks, [target |-> currentTime, set |-> TRUE,
                               report |-> page = "SplitPage"])
    /\ isSeeking' = FALSE
    /\ PollEffect(isPlaying, FALSE, MarkStale(polls))
    /\ op' = Ran("sliderRelease")
    /\ UNCHANGED <<playFrame, playerV, output, bePos, bePlaying, plays>>

\* the keydown handler for ArrowLeft and ArrowRight up to its await:
\* SilenceAutoPage sets the new time before the call, the other pages after
HandleKeyDown ==
    \E key \in {"ArrowLeft", "ArrowRight"} :
        LET skip == SKIP_SECONDS * UnitsPerSec
            newTime == IF key = "ArrowLeft" THEN Max(0, currentTime - skip)
                       ELSE Min(duration, currentTime + skip)
        IN  /\ page \in {"SilenceAutoPage", "SilencePage", "SplitPage"}
            /\ isLoaded
            /\ Len(seeks) < MaxPending
            /\ seeks' = Append(seeks, [target |-> newTime,
                                       set |-> page # "SilenceAutoPage",
                                       report |-> FALSE])
            /\ currentTime' = IF page = "SilenceAutoPage" THEN newTime ELSE currentTime
            /\ polls' = MarkStale(polls)
            /\ op' = Ran("keyDown")
            /\ UNCHANGED <<playFrame, duration, isPlaying, isLoaded, output, isSeeking,
                           bePos, bePlaying, timerArmed, plays>>

\* the element a key event is aimed at: an element that is no input, a text
\* input without a key handler of its own (segment fields, server address),
\* the label input of the mark popup
KeyTargets == {"body", "textField", "markLabel"}
Keys == {"ArrowLeft", "ArrowRight", " ", "1", "Enter", "Escape"}

\* e.target instanceof HTMLInputElement || e.target instanceof HTMLTextAreaElement
IsInputElement(target) == target \in {"textField", "markLabel"}

windowKeyDownAnyTarget(target, key, bound) ==
    LET skip == SKIP_SECONDS * UnitsPerSec
        newTime == IF key = "ArrowLeft" THEN Max(0, currentTime - skip)
                   ELSE Min(duration, currentTime + skip)
    IN  IF ~isLoaded \/ key \notin {"ArrowLeft", "ArrowRight", " "}
        THEN UNCHANGED <<seeks, plays, currentTime, polls>>
        ELSE IF key = " "
        THEN /\ Len(plays) < MaxPending
             /\ plays' = Append(plays, IF bound THEN "pause" ELSE "play")
             /\ UNCHANGED <<seeks, currentTime, polls>>
        ELSE /\ Len(seeks) < MaxPending
             /\ seeks' = Append(seeks, [target |-> newTime,
                                        set |-> page # "SilenceAutoPage",
                                        report |-> FALSE])
             /\ currentTime' = IF page = "SilenceAutoPage" THEN newTime ELSE currentTime
             /\ polls' = MarkStale(polls)
             /\ UNCHANGED plays

\* the keydown listener of the window up to its await; bound is the isPlaying
\* of the render whose handlePlayPause the listener calls
windowKeyDown(target, key, bound) ==
    LET skip == SKIP_SECONDS * UnitsPerSec
        newTime == IF key = "ArrowLeft" THEN Max(0, currentTime - skip)
                   ELSE Min(duration, currentTime + skip)
    IN  IF ~isLoaded \/ IsInputElement(target)
           \/ key \notin {"ArrowLeft", "ArrowRight", " "}
        THEN UNCHANGED <<seeks, plays, currentTime, polls>>
        ELSE IF key = " "
        THEN /\ Len(plays) < MaxPending
             /\ plays' = Append(plays, IF bound THEN "pause" ELSE "play")
             /\ UNCHANGED <<seeks, currentTime, polls>>
        ELSE /\ Len(seeks) < MaxPending
             /\ seeks' = Append(seeks, [target |-> newTime,
                                        set |-> page # "SilenceAutoPage",
                                        report |-> FALSE])
             /\ currentTime' = IF page = "SilenceAutoPage" THEN newTime ELSE currentTime
             /\ polls' = MarkStale(polls)
             /\ UNCHANGED plays

\* a key is pressed with the focus on target.  The label input of the mark
\* popup has its own handler, which stops the event and confirms on Enter and
\* cancels on Escape; every other event arrives at the window listener.  The
\* listener of SilencePage and SplitPage is bound again on every change of
\* isPlaying; that of SilenceAutoPage only when isLoaded or duration change,
\* so the isPlaying it reads is that of an earlier render.
KeyDown(target, key, bound) ==
    /\ page \in {"SilenceAutoPage", "SilencePage", "SplitPage"}
    /\ (page # "SilenceAutoPage" \/ key # " ") => bound = isPlaying
    /\ IF target = "markLabel"
       THEN /\ page = "SplitPage"
            /\ PopupShown
            /\ IF key = "Enter" THEN handleConfirmMark
               ELSE IF key = "Escape" THEN handleCancelMark
               ELSE UNCHANGED vars
       ELSE /\ windowKeyDown(target, key, bound)
            /\ op' = Ran("keyDown")
            /\ UNCHANGED <<playFrame, duration, isPlaying, isLoaded, output, isSeeking,
                           bePos, bePlaying, timerArmed>>

KeyDowns ==
    \E target \in KeyTargets, key \in Keys, bound \in BOOLEAN : KeyDown(target, key, bound)

\* seek returned or threw; the engine is then at the target
SeekReturnOf(i, threw) ==
    /\ i \in DOMAIN seeks
    /\ seeks' = RemoveAt(seeks, i)
    /\ bePos' = IF threw THEN bePos ELSE seeks[i].target
    /\ currentTime' = IF ~threw /\ seeks[i].set THEN seeks[i].target ELSE currentTime
    /\ output' = IF threw /\ seeks[i].report THEN "seekError" ELSE output
    /\ polls' = IF Len(seeks) = 1 THEN ClearStale(polls) ELSE polls
    /\ op' = Ran("seekReturn")
    /\ UNCHANGED <<playFrame, duration, isPlaying, isLoaded, isSeeking,
                   bePlaying, timerArmed, plays>>

SeekReturn == \E i \in DOMAIN seeks, threw \in BOOLEAN : SeekReturnOf(i, threw)

\* handlePlayPause up to its await
HandlePlayPause ==
    /\ page \in {"SilenceAutoPage", "SilencePage", "SplitPage"}
    /\ PlayerShown
    /\ Len(plays) < MaxPending
    /\ plays' = Append(plays, IF isPlaying THEN "pause" ELSE "play")
    /\ op' = Ran("playPause")
    /\ UNCHANGED <<playFrame, playerV, output, isSeeking, bePos, bePlaying, polls,
                   timerArmed, seeks>>

playPauseReturnFlipsAnyway(i, threw) ==
    /\ isPlaying' = (plays[i] = "play")
    /\ bePlaying' = IF threw THEN bePlaying ELSE (plays[i] = "play")
    /\ PollEffect(plays[i] = "play", isSeeking, polls)

\* the player state after play or pause returned: setIsPlaying stands after
\* the await inside the try block
playPauseReturn(i, threw) ==
    IF threw
    THEN UNCHANGED <<isPlaying, bePlaying, polls, timerArmed>>
    ELSE /\ bePlaying' = (plays[i] = "play")
         /\ isPlaying' = (plays[i] = "play")
         /\ PollEffect(plays[i] = "play", isSeeking, polls)

\* play or pause returned or threw
PlayPauseReturnOf(i, threw) ==
    /\ i \in DOMAIN plays
    /\ plays' = RemoveAt(plays, i)
    /\ op' = Ran("playPauseReturn")
    /\ playPauseReturn(i, threw)
    /\ output' = IF threw THEN "playError" ELSE output
    /\ UNCHANGED <<playFrame, duration, currentTime, isLoaded, isSeeking, bePos, seeks>>

PlayPauseReturn ==
    \E i \in DOMAIN plays, threw \in BOOLEAN : PlayPauseReturnOf(i, threw)

\* the engine plays on
EngineAdvances ==
    \E pos \in Positions :
        /\ bePlaying
        /\ pos > bePos /\ pos <= duration
        /\ bePos' = pos
        /\ op' = Ran("engine")
        /\ UNCHANGED <<playFrame, playerV, output, isSeeking, bePlaying, polls,
                       timerArmed, seeks, plays>>

\* the engine reaches the end of the track and stops
EngineStops ==
    /\ bePlaying
    /\ bePos >= duration
    /\ bePlaying' = FALSE
    /\ op' = Ran("engine")
    /\ UNCHANGED <<playFrame, playerV, output, isSeeking, bePos, polls, timerArmed,
                   seeks, plays>>


----------------------------------------------------------------------------
(* SilenceAutoPage.tsx: server connection, batch folder, file selection    *)

BatchListings == {<<>>, <<"a", "b", "c">>}

Range(seq) == {seq[i] : i \in DOMAIN seq}

Without(seq, x) == LET Keep(y) == y # x IN SelectSeq(seq, Keep)

\* the main action area is drawn only while connected
AutoShown == page = "SilenceAutoPage" /\ isConnected = "true"

autoFrame == <<listV, markV, loading, output, fileList, audioFilePath, pendingLists,
               reqV, pollV>>

\* checkConnection from the connect button, up to its await
CheckConnection ==
    /\ page = "SilenceAutoPage"
    /\ isConnected # "true"
    /\ connects = 0
    /\ connects' = 1
    /\ op' = Ran("checkConnection")
    /\ UNCHANGED <<page, reviewV, autoFrame, playerV, folderPath, selectedFile, pendingLoads,
                   isConnected, batchFolder, batchFiles, batchSelected, batchProgress,
                   isBatchRunning, runs, picks, lastLoadedRef, outcomes, sent, wiped>>

\* connect_server returned alive or not, or threw
ConnectReturn ==
    \E alive \in BOOLEAN :
        /\ page = "SilenceAutoPage"
        /\ connects = 1
        /\ connects' = 0
        /\ isConnected' = IF alive THEN "true" ELSE "false"
        /\ op' = Ran("connectReturn")
        /\ UNCHANGED <<page, reviewV, autoFrame, playerV, folderPath, selectedFile, pendingLoads,
                       batchFolder, batchFiles, batchSelected, batchProgress,
                       isBatchRunning, runs, picks, lastLoadedRef, outcomes, sent,
                       wiped>>

handleDisconnect ==
    /\ page = "SilenceAutoPage"
    /\ isConnected = "true"
    /\ isConnected' = "null"
    /\ op' = Ran("disconnect")
    /\ UNCHANGED <<page, reviewV, autoFrame, playerV, folderPath, selectedFile, pendingLoads,
                   connects, batchFolder, batchFiles, batchSelected, batchProgress,
                   isBatchRunning, runs, picks, lastLoadedRef, outcomes, sent, wiped>>

\* selectBatchFolderAction from the moment the folder dialog returns a
\* folder, up to the await of list_audio_files; the dialog is taken to block
\* the window, so the button was enabled when the dialog returns
selectBatchFolderOf(selected) ==
    /\ AutoShown
    /\ ~isBatchRunning
    /\ Len(picks) < MaxPending
    /\ batchFolder' = selected
    /\ folderPath' = selected
    /\ picks' = Append(picks, selected)
    /\ op' = Ran("selectBatchFolder")
    /\ UNCHANGED <<page, reviewV, autoFrame, playerV, selectedFile, pendingLoads,
                   isConnected, connects, batchFiles, batchSelected, batchProgress,
                   isBatchRunning, runs, lastLoadedRef, outcomes, sent, wiped>>

selectBatchFolderAction == \E selected \in Folders : selectBatchFolderOf(selected)

\* selectBatchFolderAction after list_audio_files returned files or threw
BatchListReturn ==
    \E i \in DOMAIN picks, threw \in BOOLEAN, files \in BatchListings :
        /\ page = "SilenceAutoPage"
        /\ picks' = RemoveAt(picks, i)
        /\ op' = Ran("batchListReturn")
        /\ IF threw
           THEN UNCHANGED <<batchFiles, batchSelected, batchProgress, wiped>>
           ELSE /\ batchFiles' = files
                /\ batchSelected' = files
                /\ batchProgress' = NoProgress
                /\ wiped' = (wiped \/ isBatchRunning)
        /\ UNCHANGED <<page, reviewV, autoFrame, playerV, folderPath, selectedFile, pendingLoads,
                       isConnected, connects, batchFolder, isBatchRunning, runs,
                       lastLoadedRef, outcomes, sent>>

\* onChange of a file's check box
ToggleFile ==
    \E f \in Range(batchFiles) :
        /\ AutoShown
        /\ batchFolder # ""
        /\ ~isBatchRunning
        /\ batchSelected' = IF f \in Range(batchSelected) THEN Without(batchSelected, f)
                            ELSE Append(batchSelected, f)
        /\ op' = Ran("toggleFile")
        /\ UNCHANGED <<page, reviewV, autoFrame, playerV, folderPath, selectedFile, pendingLoads,
                       isConnected, connects, batchFolder, batchFiles, batchProgress,
                       isBatchRunning, runs, picks, lastLoadedRef, outcomes, sent,
                       wiped>>

\* onChange of the select-all check box
ToggleAll ==
    \E checked \in BOOLEAN :
        /\ AutoShown
        /\ batchFolder # ""
        /\ ~isBatchRunning
        /\ batchSelected' = IF checked THEN batchFiles ELSE <<>>
        /\ op' = Ran("toggleAll")
        /\ UNCHANGED <<page, reviewV, autoFrame, playerV, folderPath, selectedFile, pendingLoads,
                       isConnected, connects, batchFolder, batchFiles, batchProgress,
                       isBatchRunning, runs, picks, lastLoadedRef, outcomes, sent,
                       wiped>>

\* SilenceAutoPage handleLoadTrack up to its await; recent says whether the
\* last load of the same file is less than two seconds old
autoLoadTrack(folder, filename, recent) ==
    IF folder = "" \/ filename = "" \/ (lastLoadedRef = filename /\ recent)
    THEN UNCHANGED <<lastLoadedRef, pendingLoads>>
    ELSE /\ Len(pendingLoads) < MaxPending
         /\ lastLoadedRef' = filename
         /\ pendingLoads' = Append(pendingLoads, filename)

\* SilenceAutoPage handleFileChange from the drop-down of selected files
AutoHandleFileChange ==
    \E f \in Range(batchSelected), recent \in BOOLEAN :
        /\ AutoShown
        /\ IF f = selectedFile
           THEN UNCHANGED <<selectedFile, lastLoadedRef, pendingLoads, selectedIndices,
                            lookups>>
           ELSE /\ selectedFile' = f
                /\ autoLoadTrack(IF batchFolder # "" THEN batchFolder ELSE folderPath,
                                 f, recent)
                /\ selectedIndices' = {}
                /\ lookups' = lookups \cup
                       {<<IF batchFolder # "" THEN batchFolder ELSE folderPath, f>>}
        /\ op' = Ran("fileChange")
        /\ UNCHANGED <<page, currentProject, cache, results, reviewSilence, autoFrame,
                       playerV, folderPath, isConnected, connects,
                       batchFolder, batchFiles, batchSelected, batchProgress,
                       isBatchRunning, runs, picks, outcomes, sent, wiped>>


----------------------------------------------------------------------------
(* SilenceAutoPage.tsx startBatchTranscription.  A run is the activation   *)
(* of the function: the files it captured, the index of the file it is at, *)
(* the call it awaits and the values its closure holds.  sent lists the    *)
(* files whose transcribe_audio call was issued since the last start, and  *)
(* outcomes the status each file's own calls imply.                        *)

\* setBatchProgress(prev => ({ ...prev, [filename]: status }))
SetStatus(progress, f, status) ==
    [g \in DOMAIN progress \cup {f} |-> IF g = f THEN status ELSE progress[g]]

\* the status shown for a file, "none" when the map has no entry for it
StatusOf(progress, f) == IF f \in DOMAIN progress THEN progress[f] ELSE "none"

initialProgressKeepDone(files) ==
    [g \in DOMAIN batchProgress \cup Range(files) |->
        IF g \in Range(files) /\ ~(g \in DOMAIN batchProgress /\ batchProgress[g] = "done")
        THEN "pending" ELSE batchProgress[g]]

\* const initialProgress = { ...batchProgress }; forEach(f => ... 'pending')
initialProgress(files) ==
    [g \in DOMAIN batchProgress \cup Range(files) |->
        IF g \in Range(files) THEN "pending" ELSE batchProgress[g]]

StartEnabledIgnoringRun == Len(batchSelected) > 0

\* the start button: disabled={isBatchRunning || batchSelected.size === 0}
StartEnabled == ~isBatchRunning /\ Len(batchSelected) > 0

batchFrame == <<page, currentProject, results, reviewSilence, autoFrame, playerV,
                folderPath, isConnected, connects, batchFolder, batchFiles,
                batchSelected, picks, wiped>>

\* startBatchTranscription up to the first await of transcribe_audio
startBatchTranscription ==
    /\ AutoShown
    /\ batchFolder # ""
    /\ StartEnabled
    /\ Len(runs) < MaxRuns
    /\ isBatchRunning' = TRUE
    /\ batchProgress' = SetStatus(initialProgress(batchSelected), batchSelected[1],
                                  "processing")
    /\ runs' = Append(runs, [files |-> batchSelected, idx |-> 1, stage |-> "transcribe",
                             folder |-> batchFolder,
                             autoLoad |-> ~isPlaying /\ selectedFile = ""])
    /\ sent' = <<batchSelected[1]>>
    /\ outcomes' = NoProgress
    /\ op' = Ran("startBatch")
    /\ UNCHANGED <<page, reviewV, autoFrame, playerV, folderPath, selectedFile, pendingLoads,
                   isConnected, connects, batchFolder, batchFiles, batchSelected,
                   picks, lastLoadedRef>>
    /\ wiped' = FALSE

\* for (const filename of filesToProcess): the loop ends after the last file
lastOfRun(run, status) == run.idx = Len(run.files)

\* the end of one iteration of the loop: the file's status is set, then the
\* next file is started or the run ends, with the automatic load of the first
\* file that the closure of the run decides
finishFile(r, status) ==
    LET run == runs[r]
        filename == run.files[run.idx]
        settled == SetStatus(batchProgress, filename, status)
    IN  /\ outcomes' = SetStatus(outcomes, filename, status)
        /\ IF lastOfRun(run, status)
           THEN /\ batchProgress' = settled
                /\ isBatchRunning' = FALSE
                /\ runs' = RemoveAt(runs, r)
                /\ sent' = sent
                /\ IF run.autoLoad
                   THEN /\ selectedFile' = run.files[1]
                        /\ \E recent \in BOOLEAN :
                               autoLoadTrack(run.folder, run.files[1], recent)
                        /\ selectedIndices' = {}
                        /\ lookups' = lookups \cup {<<run.folder, run.files[1]>>}
                   ELSE UNCHANGED <<selectedFile, lastLoadedRef, pendingLoads,
                                    selectedIndices, lookups>>
           ELSE /\ batchProgress' = SetStatus(settled, run.files[run.idx + 1],
                                              "processing")
                /\ runs' = [runs EXCEPT ![r].idx = run.idx + 1,
                                        ![r].stage = "transcribe"]
                /\ sent' = Append(sent, run.files[run.idx + 1])
                /\ UNCHANGED <<isBatchRunning, selectedFile, lastLoadedRef,
                               pendingLoads, selectedIndices, lookups>>

\* getJsonPath: the file name under .silence_reg of the project when the
\* path starts with the project, the path itself + ".json" otherwise.  Every
\* folder of ProjectFolders lies in the project "proj".
getJsonPath(folder, filename) ==
    IF currentProject # "" THEN <<currentProject, ".silence_reg", filename>>
    ELSE <<folder, filename>>

saveTranscriptNowhere(files, folder, filename) == files

\* save_text_file({ path: jsonPath, content: JSON.stringify(data) }) of the
\* response to transcribe_audio for folder/filename
saveTranscript(files, folder, filename) ==
    [k \in DOMAIN files \cup {getJsonPath(folder, filename)} |->
        IF k = getJsonPath(folder, filename) THEN <<folder, filename>> ELSE files[k]]

\* transcribe_audio returned a response or threw
TranscribeReturn(r, threw) ==
    /\ page = "SilenceAutoPage"
    /\ runs[r].stage = "transcribe"
    /\ IF threw
       THEN finishFile(r, "error")
       ELSE /\ runs' = [runs EXCEPT ![r].stage = "save"]
            /\ UNCHANGED <<batchProgress, isBatchRunning, outcomes, sent, selectedFile,
                           lastLoadedRef, pendingLoads, selectedIndices, lookups>>
    /\ op' = Ran("transcribeReturn")
    /\ UNCHANGED <<batchFrame, cache>>

TranscribeReturns ==
    \E r \in DOMAIN runs, threw \in BOOLEAN : TranscribeReturn(r, threw)

\* getJsonPath, ensure_dir_exists and save_text_file returned, or one of the
\* last two threw
SaveReturn(r, threw) ==
    /\ page = "SilenceAutoPage"
    /\ runs[r].stage = "save"
    /\ cache' = IF threw THEN cache
                ELSE saveTranscript(cache, runs[r].folder, runs[r].files[runs[r].idx])
    /\ finishFile(r, IF threw THEN "error" ELSE "done")
    /\ op' = Ran("saveReturn")
    /\ UNCHANGED batchFrame

SaveReturns == \E r \in DOMAIN runs, threw \in BOOLEAN : SaveReturn(r, threw)

----------------------------------------------------------------------------
(* SilenceAutoPage.tsx, the review of a transcript: tryLoadTranscript,     *)
(* the tick boxes of the segments and handleSilenceSelected.  A transcript *)
(* is written as the audio file it was made from, and it has one segment.  *)

ProjectFolders == {"dir", "sub"}
SegmentIndices == {0}

\* the folder dialog when the project holds more than one folder of audio
selectAnyBatchFolder == \E selected \in ProjectFolders : selectBatchFolderOf(selected)

reviewFrame == <<page, listV, markV, playerV, loading, fileV, pendingLists, pendingLoads,
                 reqV, pollV, batchV, currentProject, cache>>

tryLoadTranscriptKeepingShown(files, fullPath, threw) ==
    IF threw THEN results
    ELSE IF getJsonPath(fullPath[1], fullPath[2]) \in DOMAIN files
         THEN files[getJsonPath(fullPath[1], fullPath[2])] ELSE <<>>

\* what tryLoadTranscript hands to setResults: the parsed record when the
\* file exists, null when it does not or when a call or JSON.parse threw
tryLoadTranscript(files, fullPath, threw) ==
    IF ~threw /\ getJsonPath(fullPath[1], fullPath[2]) \in DOMAIN files
    THEN files[getJsonPath(fullPath[1], fullPath[2])] ELSE <<>>

\* tryLoadTranscript after its awaits: check_file_exists and read_text_file
\* returned, or one of them or JSON.parse threw
LookupReturn(fullPath, threw) ==
    /\ page = "SilenceAutoPage"
    /\ fullPath \in lookups
    /\ lookups' = lookups \ {fullPath}
    /\ results' = tryLoadTranscript(cache, fullPath, threw)
    /\ output' = IF results' # <<>> THEN "transcriptFound" ELSE output
    /\ op' = Ran(IF threw THEN "lookupFailed" ELSE "lookupReturn")
    /\ UNCHANGED <<reviewFrame, selectedIndices, reviewSilence>>

LookupReturns == \E fullPath \in lookups, threw \in BOOLEAN : LookupReturn(fullPath, threw)

\* the tick box of a segment of the transcript shown
ToggleSegment ==
    \E idx \in SegmentIndices :
        /\ AutoShown
        /\ results # <<>>
        /\ selectedIndices' = IF idx \in selectedIndices THEN selectedIndices \ {idx}
                              ELSE selectedIndices \cup {idx}
        /\ op' = Ran("toggleSegment")
        /\ UNCHANGED <<reviewFrame, output, results, lookups, reviewSilence>>

\* handleSilenceSelected up to its await of apply_silence_command; segments
\* are written as the transcript they are taken from and their indices
handleSilenceSelected ==
    /\ AutoShown
    /\ ~(selectedIndices = {} \/ results = <<>> \/ folderPath = "" \/ selectedFile = "")
    /\ Len(reviewSilence) < MaxPending
    /\ reviewSilence' = Append(reviewSilence,
                               [audioPath |-> <<folderPath, selectedFile>>,
                                segments |-> [of |-> results, idx |-> selectedIndices]])
    /\ output' = "silencing"
    /\ op' = Ran("silenceSelected")
    /\ UNCHANGED <<reviewFrame, results, selectedIndices, lookups>>

\* apply_silence_command of handleSilenceSelected returned or threw
ReviewSilenceReturn ==
    \E i \in DOMAIN reviewSilence, threw \in BOOLEAN :
        /\ page = "SilenceAutoPage"
        /\ reviewSilence' = RemoveAt(reviewSilence, i)
        /\ output' = IF threw THEN "silenceError" ELSE "silenceSuccess"
        /\ op' = Ran("silenceSelectedReturn")
        /\ UNCHANGED <<reviewFrame, results, selectedIndices, lookups>>

\* the transcripts of earlier sessions that the disk holds when the page is
\* mounted: those of the audio files of transcribed, in a project
TranscribedBefore == SUBSET {<<"dir", "a">>, <<"dir", "b">>}
DiskOf(transcribed) ==
    [k \in {<<"proj", ".silence_reg", fullPath[2]>> : fullPath \in transcribed} |->
        CHOOSE fullPath \in transcribed : fullPath[2] = k[3]]

\* C21: a transcript lookup in which check_file_exists, read_text_file or
\* JSON.parse failed ends as a miss does: no transcript is shown, and no
\* other cell of the page changes (no log line, no status), so every
\* handler is as available as it was.
C21_FailedReadIsAMiss ==
    [][\A fullPath \in lookups :
          LookupReturn(fullPath, TRUE) =>
              /\ results' = <<>>
              /\ UNCHANGED <<reviewFrame, output, selectedIndices, reviewSilence>>]_vars

\* the lookup for the selected file has failed although its transcript is
\* on the disk, and none is shown
C21_FailedWithTranscriptOnDisk ==
    /\ op.name = "lookupFailed"
    /\ results = <<>>
    /\ selectedFile # ""
    /\ getJsonPath(folderPath, selectedFile) \in DOMAIN cache
    /\ lookups = {}

InitReview ==
    \E transcribed \in TranscribedBefore :
        InitPageIn("SilenceAutoPage", "proj", DiskOf(transcribed))

NextReview ==
    \/ ConnectReturn
    \/ selectBatchFolderAction
    \/ BatchListReturn
    \/ LoadTrackReturn
    \/ AutoHandleFileChange
    \/ LookupReturns
    \/ ToggleSegment
    \/ handleSilenceSelected
    \/ ReviewSilenceReturn

SpecReview == InitReview /\ [][NextReview]_vars

\* the folder that handleFileChange reads the selected file from
ReviewFolder == IF batchFolder # "" THEN batchFolder ELSE folderPath

\* C29: once no transcript lookup is in flight, the transcript shown is the
\* one made from the file selected for review, or none is shown, in whatever
\* order the lookups returned.
C29_ShownIsOfSelectedFile ==
    lookups = {} => results \in {<<>>, <<ReviewFolder, selectedFile>>}

\* two lookups are in flight, the earlier one for a file whose transcript is
\* on the disk, the later one for the file now selected
C29_TwoLookupsInFlight ==
    \E earlier \in lookups :
        /\ earlier[2] # selectedFile
        /\ <<ReviewFolder, selectedFile>> \in lookups
        /\ getJsonPath(earlier[1], earlier[2]) \in DOMAIN cache

\* C28: every redaction request of the transcript review names an audio
\* file and carries segments taken from the transcript of that same file.
C28_SegmentsOfNamedFile ==
    \A i \in DOMAIN reviewSilence :
        reviewSilence[i].segments.of = reviewSilence[i].audioPath

\* a request is in flight that was issued while the lookup for the selected
\* file had not returned
C28_RequestedDuringLookup ==
    /\ reviewSilence # <<>>
    /\ <<ReviewFolder, selectedFile>> \in lookups

\* the choice of a file for review and its lookup alone
NextLookup ==
    \/ ConnectReturn
    \/ selectBatchFolderAction
    \/ BatchListReturn
    \/ LoadTrackReturn
    \/ AutoHandleFileChange
    \/ LookupReturns

SpecLookup == InitReview /\ [][NextLookup]_vars

\* batches over the folders of a project, or of no project
InitCache == \E project \in {"", "proj"} : InitPageIn("SilenceAutoPage", project, NoProgress)

NextCache ==
    \/ ConnectReturn
    \/ selectAnyBatchFolder
    \/ BatchListReturn
    \/ startBatchTranscription
    \/ TranscribeReturns
    \/ SaveReturns
    \/ LoadTrackReturn
    \/ LookupReturns

SpecCache == InitCache /\ [][NextCache]_vars

\* C24: while a run is going, every file of the run that is marked 'done'
\* has its transcript at the path derived from it; the step that follows
\* ensure_dir_exists and save_text_file marks the file 'done' with the
\* transcript written if both succeeded, and marks it 'error' with the disk
\* as it was if one of them failed, and then the next file of the run, if
\* there is one, is in process.
C24_DoneOnlyAfterWrite ==
    /\ [](\A r \in DOMAIN runs : \A f \in Range(runs[r].files) :
             StatusOf(batchProgress, f) = "done" =>
                 /\ getJsonPath(runs[r].folder, f) \in DOMAIN cache
                 /\ cache[getJsonPath(runs[r].folder, f)] = <<runs[r].folder, f>>)
    /\ [][\A r \in DOMAIN runs : \A threw \in BOOLEAN :
              SaveReturn(r, threw) =>
                  LET run == runs[r]
                      f == run.files[run.idx]
                      k == getJsonPath(run.folder, f)
                  IN  /\ StatusOf(batchProgress', f) = IF threw THEN "error" ELSE "done"
                      /\ IF threw THEN cache' = cache
                         ELSE k \in DOMAIN cache' /\ cache'[k] = <<run.folder, f>>
                      /\ run.idx < Len(run.files) =>
                             /\ runs'[r].idx = run.idx + 1
                             /\ StatusOf(batchProgress', run.files[run.idx + 1]) =
                                    "processing"]_vars

\* the first file of a run is done, the save of its second file has failed
\* and its third file is in process
C24_ThirdFileAfterFailedSave ==
    \E r \in DOMAIN runs :
        /\ runs[r].idx = 3
        /\ StatusOf(batchProgress, runs[r].files[1]) = "done"
        /\ StatusOf(batchProgress, runs[r].files[2]) = "error"
        /\ getJsonPath(runs[r].folder, runs[r].files[2]) \notin DOMAIN cache

\* C30: two different audio files never share a cache key, also when they
\* have the same file name in different folders of the project: writing the
\* transcript of one file never replaces the transcript of another.
C30_RecordsKeptApart ==
    [][\A k \in DOMAIN cache : cache'[k] = cache[k]]_vars

\* the transcript of a file is on the disk, and the transcript of a file of
\* the same name in another folder is about to be saved
C30_SameNameInTwoFolders ==
    \E r \in DOMAIN runs, k \in DOMAIN cache :
        /\ runs[r].stage = "save"
        /\ cache[k][2] = runs[r].files[runs[r].idx]
        /\ cache[k][1] # runs[r].folder


----------------------------------------------------------------------------
(* Playback synchronisation on the three pages with a player               *)

InitPlay == \E p \in {"SilenceAutoPage", "SilencePage", "SplitPage"} : InitPage(p)

NextPlay ==
    \/ ConnectReturn
    \/ selectBatchFolderAction
    \/ BatchListReturn
    \/ AutoHandleFileChange
    \/ HandleSelectFolder
    \/ ListFilesReturn
    \/ SplitHandleLoadTrack
    \/ LoadTrackReturn
    \/ PollIssue
    \/ PollReturns
    \/ SliderChange
    \/ SliderRelease
    \/ HandleKeyDown
    \/ SeekReturn
    \/ HandlePlayPause
    \/ PlayPauseReturn
    \/ EngineAdvances
    \/ EngineStops

SpecPlay == InitPlay /\ [][NextPlay]_vars

\* Loading and starting tracks on the three pages, the position being moved
\* by the slider only: the behaviours in which load_track returns over every
\* state of the player.
NextLoad ==
    \/ ConnectReturn
    \/ selectBatchFolderAction
    \/ BatchListReturn
    \/ AutoHandleFileChange
    \/ HandleSelectFolder
    \/ ListFilesReturn
    \/ SplitHandleLoadTrack
    \/ LoadTrackReturn
    \/ SliderChange
    \/ HandlePlayPause
    \/ PlayPauseReturn

SpecLoad == InitPlay /\ [][NextLoad]_vars

\* C17: when load_track succeeds the page takes the returned duration, sets
\* the position to 0 and isPlaying to false and marks the track loaded; when
\* it fails the load marks nothing as loaded, duration, position and isPlaying
\* keep their values, and the error is shown.
C17_LoadOutcome ==
    [][\A i \in DOMAIN pendingLoads, threw \in BOOLEAN, dur \in Durations :
          LoadTrackReturnOf(i, threw, dur) =>
              IF threw
              THEN /\ UNCHANGED <<isLoaded, duration, currentTime, isPlaying>>
                   /\ output' = "loadError"
              ELSE /\ duration' = dur
                   /\ currentTime' = 0
                   /\ isPlaying' = FALSE
                   /\ isLoaded' = TRUE]_vars

\* a load has failed while an earlier track was playing at a position other
\* than 0
C17_FailedWhilePlaying ==
    /\ output = "loadError"
    /\ isLoaded
    /\ isPlaying
    /\ currentTime > 0

\* a load has failed with no track loaded before
C17_FailedUnloaded ==
    /\ output = "loadError"
    /\ ~isLoaded
    /\ pendingLoads = <<>>

\* C18 (as stated): play and pause issue the backend call and then flip
\* isPlaying, and the flag is flipped also when the call fails.
C18_FlippedAlsoOnFailure ==
    [][/\ HandlePlayPause => Len(plays') = Len(plays) + 1
       /\ \A i \in DOMAIN plays, threw \in BOOLEAN :
              PlayPauseReturnOf(i, threw) => isPlaying' = (plays[i] = "play")]_vars

\* C18 (amended): play and pause issue the backend call and leave isPlaying
\* alone until it returns; when the call succeeds the flag becomes true for
\* play and false for pause; when it fails the flag keeps its value and the
\* error is shown.
C18_FlippedOnSuccessOnly ==
    [][/\ HandlePlayPause =>
              /\ Len(plays') = Len(plays) + 1
              /\ plays'[Len(plays')] = (IF isPlaying THEN "pause" ELSE "play")
              /\ UNCHANGED isPlaying
       /\ \A i \in DOMAIN plays, threw \in BOOLEAN :
              PlayPauseReturnOf(i, threw) =>
                  IF threw
                  THEN UNCHANGED isPlaying /\ output' = "playError"
                  ELSE isPlaying' = (plays[i] = "play")]_vars

\* play has failed on a loaded track: the track is still shown as stopped
C18_PlayFailed ==
    /\ isLoaded
    /\ output = "playError"
    /\ ~isPlaying
    /\ plays = <<>>

\* Keys pressed on the three pages with a track loading, loaded or playing
\* and, on SplitPage, with marks set on the wave form.
NextKeys ==
    \/ ConnectReturn
    \/ selectBatchFolderAction
    \/ BatchListReturn
    \/ AutoHandleFileChange
    \/ HandleSelectFolder
    \/ ListFilesReturn
    \/ SplitHandleLoadTrack
    \/ LoadTrackReturn
    \/ HandleContextMenu
    \/ KeyDowns
    \/ SeekReturn
    \/ PlayPauseReturn

SpecKeys == InitPlay /\ [][NextKeys]_vars

TransportKeys == {"ArrowLeft", "ArrowRight", " "}

\* C19: a key pressed in a text input (a segment field or the label input of
\* the mark popup) issues no seek, play or pause and leaves position and
\* isPlaying unchanged, whatever the key; a key issues a request only when a
\* track is loaded, the focus is outside the text inputs and the key is an
\* arrow or the space bar: an arrow seeks to the position 5 s back or forth,
\* kept within 0 and the duration, the space bar issues one play or pause.
\* Stated over the steps that change a request queue, the position or the
\* flag: such a step, if it is a key event, is one of these.
C19_KeysInTextInputsSuppressed ==
    [][\/ UNCHANGED <<seeks, plays, currentTime, isPlaying>>
       \/ \A target \in KeyTargets, key \in Keys, bound \in BOOLEAN :
              KeyDown(target, key, bound) =>
                  /\ ~IsInputElement(target)
                  /\ isLoaded
                  /\ target = "body"
                  /\ key \in TransportKeys
                  /\ UNCHANGED isPlaying
                  /\ IF key = " "
                     THEN /\ Len(plays') = Len(plays) + 1
                          /\ UNCHANGED <<seeks, currentTime>>
                     ELSE /\ Len(seeks') = Len(seeks) + 1
                          /\ seeks'[Len(seeks')].target =
                                 (IF key = "ArrowLeft"
                                  THEN Max(0, currentTime - SKIP_SECONDS * UnitsPerSec)
                                  ELSE Min(duration, currentTime + SKIP_SECONDS * UnitsPerSec))
                          /\ UNCHANGED plays]_vars

\* Enter has been pressed in the label input of the mark popup while the
\* track was playing at a position other than 0: a segment was added and no
\* request is in flight
C19_EnterInLabelWhilePlaying ==
    /\ op.name = "confirm"
    /\ isLoaded
    /\ isPlaying
    /\ currentTime > 0
    /\ seeks = <<>>
    /\ plays = <<>>

\* keys outside the text inputs have issued a seek and a play or pause
C19_KeysActedOutside ==
    /\ seeks # <<>>
    /\ plays # <<>>

\* Loads and seeks on the three pages: tracks are loaded, the slider is
\* moved and released, the arrow keys are pressed, and the calls return.
NextSeek ==
    \/ ConnectReturn
    \/ selectBatchFolderAction
    \/ BatchListReturn
    \/ AutoHandleFileChange
    \/ HandleSelectFolder
    \/ ListFilesReturn
    \/ SplitHandleLoadTrack
    \/ LoadTrackReturn
    \/ SliderChange
    \/ SliderRelease
    \/ HandleKeyDown
    \/ SeekReturn

SpecSeek == InitPlay /\ [][NextSeek]_vars

\* the lines and status texts with which the handlers report a failed call
ErrorLines == {"loadError", "playError", "seekError"}

\* C22: whenever load_track, play, pause or seek fails, the newest log line
\* or the status text of the page is the report of that failure after the
\* handler has caught it.
C22_EveryFailureReported ==
    [][/\ \A i \in DOMAIN pendingLoads, dur \in Durations :
              LoadTrackReturnOf(i, TRUE, dur) => output' \in ErrorLines
       /\ \A i \in DOMAIN plays : PlayPauseReturnOf(i, TRUE) => output' \in ErrorLines
       /\ \A i \in DOMAIN seeks : SeekReturnOf(i, TRUE) => output' \in ErrorLines]_vars

\* on SilenceAutoPage a seek requested by releasing the timeline slider is
\* in flight and no failure has been reported so far
C22_SliderSeekInFlight ==
    /\ page = "SilenceAutoPage"
    /\ output \notin ErrorLines
    /\ \E i \in DOMAIN seeks : seeks[i].set /\ ~seeks[i].report

\* C26: after any sequence of loads and seeks the position lies within the
\* track, 0 <= position <= duration.
C26_PositionWithinTrack == 0 <= currentTime /\ currentTime <= duration

\* a seek to a position other than 0 is in flight while a load is in flight
C26_SeekAndLoadInFlight ==
    /\ seeks # <<>>
    /\ pendingLoads # <<>>
    /\ \E i \in DOMAIN seeks : seeks[i].target > 0 /\ seeks[i].set

\* Polling on the three pages: tracks are loaded, started and paused, the
\* slider is dragged, the engine reaches the end of the track, and the timer
\* of the poll effect fires.
NextPoll ==
    \/ ConnectReturn
    \/ selectBatchFolderAction
    \/ BatchListReturn
    \/ AutoHandleFileChange
    \/ HandleSelectFolder
    \/ ListFilesReturn
    \/ SplitHandleLoadTrack
    \/ LoadTrackReturn
    \/ PollIssue
    \/ PollReturns
    \/ SliderChange
    \/ HandlePlayPause
    \/ PlayPauseReturn
    \/ EngineStops

SpecPoll == InitPlay /\ [][NextPoll]_vars

\* C25: get_playback_state is requested only while isPlaying is true and the
\* slider is not being dragged; and when the answer of a poll that was not
\* cancelled reports is_playing = false, isPlaying becomes false and no timer
\* is left armed.
C25_PollsOnlyWhilePlaying ==
    [][/\ PollIssue => (isPlaying /\ ~isSeeking)
       /\ \A i \in DOMAIN polls :
              (PollReturn(i, FALSE) /\ ~polls[i].cancelled /\ ~polls[i].is_playing) =>
                  (~isPlaying' /\ ~timerArmed')]_vars

\* the answer of a poll has stopped the display: the engine has stopped, the
\* flag is false, a track is loaded and nothing is armed or in flight
C25_StoppedByPoll ==
    /\ isLoaded
    /\ ~bePlaying
    /\ ~isPlaying
    /\ ~timerArmed
    /\ polls = <<>>
    /\ plays = <<>>
    /\ op = Ran("pollReturn")

\* C3: while a seek is in flight, the response to a poll that was requested
\* before the seek does not move the displayed position below the target of
\* the seek: the displayed optimistic value stays until the seek returns.
C3_StalePollKeepsTarget ==
    [][\A i \in DOMAIN polls, threw \in BOOLEAN : \A k \in DOMAIN seeks :
          (/\ page \in {"SilenceAutoPage", "SilencePage"}
           /\ PollReturn(i, threw)
           /\ polls[i].stale
           /\ currentTime = seeks[k].target)
              => currentTime' >= seeks[k].target]_vars

\* a key seek of SilenceAutoPage is in flight, the page shows its target and a
\* poll requested before it has not returned yet
C3_SeekWithPollInFlight ==
    /\ page = "SilenceAutoPage"
    /\ \E i \in DOMAIN polls, k \in DOMAIN seeks :
           /\ polls[i].stale
           /\ ~polls[i].cancelled
           /\ currentTime = seeks[k].target
           /\ polls[i].position < seeks[k].target

\* C4: the response to a poll request issued before the poll loop was
\* cancelled (playback stopped, a seek started, a track loaded) changes neither
\* the position nor isPlaying.
C4_CancelledPollIgnored ==
    [][\A i \in DOMAIN polls, threw \in BOOLEAN :
          (PollReturn(i, threw) /\ polls[i].cancelled)
              => UNCHANGED <<currentTime, isPlaying>>]_vars

\* a poll of a page with an interval timer is in flight after its loop was
\* cancelled, and carries a position other than the displayed one
C4_CancelledPollInFlight ==
    /\ page \in {"SilencePage", "SplitPage"}
    /\ \E i \in DOMAIN polls :
           polls[i].cancelled /\ polls[i].position # currentTime

----------------------------------------------------------------------------
(* Batch transcription on SilenceAutoPage                                  *)

InitBatch == InitPage("SilenceAutoPage")

NextBatch ==
    \/ CheckConnection
    \/ ConnectReturn
    \/ handleDisconnect
    \/ selectBatchFolderAction
    \/ BatchListReturn
    \/ ToggleFile
    \/ ToggleAll
    \/ startBatchTranscription
    \/ TranscribeReturns
    \/ SaveReturns
    \/ LoadTrackReturn

SpecBatch == InitBatch /\ [][NextBatch]_vars

\* batches of a page that connects once: the connection can be dropped, the
\* connect button is not pressed again
NextBatchRuns ==
    \/ ConnectReturn
    \/ handleDisconnect
    \/ selectBatchFolderAction
    \/ BatchListReturn
    \/ ToggleFile
    \/ ToggleAll
    \/ startBatchTranscription
    \/ TranscribeReturns
    \/ SaveReturns
    \/ LoadTrackReturn

SpecBatchRuns == InitBatch /\ [][NextBatchRuns]_vars


\* the activations awaiting transcribe_audio
InFlight == {r \in DOMAIN runs : runs[r].stage = "transcribe"}

\* the files shown as being processed
Processing == {f \in DOMAIN batchProgress : batchProgress[f] = "processing"}

\* C1: when a run ends, every file of the run has the status of its own
\* calls, 'done' if they succeeded and 'error' if one threw, whatever happened
\* to the other files; and during the run a status a file has reached is not
\* changed again.
C1_OwnStatusAtEnd ==
    [][/\ (isBatchRunning /\ ~isBatchRunning')
           => \A r \in DOMAIN runs : \A f \in Range(runs[r].files) :
                  /\ f \in DOMAIN outcomes'
                  /\ f \in DOMAIN batchProgress'
                  /\ batchProgress'[f] = outcomes'[f]
       /\ (isBatchRunning /\ isBatchRunning')
           => \A f \in DOMAIN outcomes :
                  /\ f \in DOMAIN batchProgress'
                  /\ batchProgress'[f] = outcomes[f]]_vars

\* a run has ended after the list of statuses was emptied under it: a file
\* whose calls returned has no status
C1_StatusLost ==
    /\ ~isBatchRunning
    /\ wiped
    /\ \E f \in DOMAIN outcomes : f \notin DOMAIN batchProgress

BatchFileNames == UNION {Range(files) : files \in BatchListings}

\* C23: when a run starts, every selected file is 'pending' except the first,
\* which is 'processing' at once; while a run is going a status changes only
\* from 'pending' to 'processing' and from 'processing' to 'done' or 'error';
\* a file becomes 'processing' in the step that issues its transcribe_audio
\* call; and the status of a file outside the selection of the run is not
\* changed.
C23_StatusLifecycle ==
    [][/\ startBatchTranscription =>
              \A f \in BatchFileNames :
                  StatusOf(batchProgress', f) =
                      (IF f = batchSelected[1] THEN "processing"
                       ELSE IF f \in Range(batchSelected) THEN "pending"
                       ELSE StatusOf(batchProgress, f))
       /\ runs # <<>> =>
              \A f \in BatchFileNames :
                  LET before == StatusOf(batchProgress, f)
                      after == StatusOf(batchProgress', f)
                  IN  /\ (\A r \in DOMAIN runs : f \notin Range(runs[r].files))
                          => after = before
                      /\ after # before =>
                             \/ before = "pending" /\ after = "processing"
                             \/ before = "processing" /\ after \in {"done", "error"}
                      /\ (after # before /\ after = "processing") =>
                             (Len(sent') = Len(sent) + 1 /\ sent'[Len(sent')] = f)]_vars

\* a run is going, a file of the run has been settled and the file after it
\* is being processed, while a folder listing is still in flight
C23_ListingInFlightMidRun ==
    /\ isBatchRunning
    /\ picks # <<>>
    /\ outcomes # NoProgress
    /\ Processing # {}

\* C2: at most one transcribe_audio call is in flight and at most one file is
\* 'processing'; the calls issued are the files of the selection captured at
\* the start, in its order, and a call is issued only when the calls of the
\* file before it have returned; this under every interleaving of the run
\* with starting again, selecting, picking a folder and disconnecting.
C2_OneAtATime ==
    /\ Cardinality(InFlight) <= 1
    /\ Cardinality(Processing) <= 1
    /\ \A r \in DOMAIN runs : sent = SubSeq(runs[r].files, 1, runs[r].idx)
    /\ \A k \in 1..(Len(sent) - 1) : sent[k] \in DOMAIN outcomes

\* the second file of a run is being transcribed after the user disconnected
\* and a new folder listing replaced the selection
C2_SecondFileAfterDisconnect ==
    /\ Len(sent) = 2
    /\ Cardinality(InFlight) = 1
    /\ isConnected # "true"
    /\ \E r \in DOMAIN runs : batchSelected # runs[r].files


\* every backend call the run awaits returns, and so does a track load that
\* the end of the run waits behind
SpecBatchFair ==
    /\ SpecBatch
    /\ WF_vars(TranscribeReturns)
    /\ WF_vars(SaveReturns)
    /\ WF_vars(LoadTrackReturn)

\* C14, the run ends: if every backend call returns, a running batch
\* eventually clears the batch-running flag, whatever the user does meanwhile.
C14_RunEnds == isBatchRunning ~> ~isBatchRunning

\* C14, the state at the end: when the batch-running flag is cleared every
\* file of the run has status 'done' or 'error' and no file is left 'pending'
\* or 'processing'.
C14_RunEndsSettled ==
    [][(isBatchRunning /\ ~isBatchRunning') =>
          /\ \A r \in DOMAIN runs : \A f \in Range(runs[r].files) :
                 /\ f \in DOMAIN batchProgress'
                 /\ batchProgress'[f] \in {"done", "error"}
          /\ \A f \in DOMAIN batchProgress' :
                 batchProgress'[f] \notin {"pending", "processing"}]_vars

\* a run of three files has ended and its first file has no status
C14_EndedUnsettled ==
    /\ ~isBatchRunning
    /\ Len(sent) = 3
    /\ sent[1] \notin DOMAIN batchProgress
    /\ sent[3] \in DOMAIN batchProgress

\* C16: a run issues one transcribe_audio call for each selected file,
\* whatever status the file has from an earlier run: at the start every
\* selected file leaves its old status ('pending', the first file already
\* 'processing'), and when the run ends the calls issued are exactly the
\* files of the run, each once.
C16_ReprocessesUnconditionally ==
    [][/\ (~isBatchRunning /\ isBatchRunning')
           => /\ \A k \in DOMAIN batchSelected :
                     batchProgress'[batchSelected[k]] =
                         IF k = 1 THEN "processing" ELSE "pending"
              /\ sent' = <<batchSelected[1]>>
       /\ (isBatchRunning /\ ~isBatchRunning')
           => \A r \in DOMAIN runs : sent' = runs[r].files]_vars

\* a second run is going over a file that an earlier run has processed and
\* that is waiting for its turn again
C16_SecondRunOverDone ==
    /\ isBatchRunning
    /\ selectedFile # ""
    /\ selectedFile \in DOMAIN batchProgress
    /\ batchProgress[selectedFile] = "pending"
    /\ \E f \in DOMAIN batchProgress : batchProgress[f] = "processing"

----------------------------------------------------------------------------
(* Batch transcription together with the review drop-down                  *)

NextBatchReview ==
    \/ ConnectReturn
    \/ selectBatchFolderAction
    \/ BatchListReturn
    \/ startBatchTranscription
    \/ TranscribeReturns
    \/ SaveReturns
    \/ LoadTrackReturn
    \/ AutoHandleFileChange

SpecBatchReview == InitBatch /\ [][NextBatchReview]_vars

\* C15: when the loop has finished, the first file of the batch becomes the
\* file selected for review if no file is selected at that moment; a file
\* that is selected at that moment, also one picked during the run, stays
\* selected.
C15_AutoSelectOnlyIfNone ==
    [][(isBatchRunning /\ ~isBatchRunning') =>
          \A r \in DOMAIN runs :
              selectedFile' = IF selectedFile = "" THEN runs[r].files[1]
                              ELSE selectedFile]_vars

\* the last file of a run is being saved; the run started with no file
\* selected for review and the user has picked another file than its first
C15_PickedDuringRun ==
    /\ isBatchRunning
    /\ \E r \in DOMAIN runs :
           /\ runs[r].autoLoad
           /\ runs[r].idx = Len(runs[r].files)
           /\ runs[r].stage = "save"
           /\ selectedFile \notin {"", runs[r].files[1]}

----------------------------------------------------------------------------
(* Time Code Formatter: formatTimeString as updateSegment applies it to a  *)
(* raw text put into a time field (typed or pasted), on SilencePage.tsx    *)
(* and on SplitPage.tsx                                                    *)

RawChars == {"1", "."}

\* the raw texts of the formatter's documented cases
RawExamples ==
    {<<"5", "9">>, <<"1", "3", "0">>, <<"1", "2", "3", "4", "5">>,
     <<"0", "1", "1", "2", "2", "3">>, <<"0", "1", "1", "2", "2", "3", "4">>}

Dots(raw) == Cardinality({i \in DOMAIN raw : raw[i] = "."})

\* raw texts of digits with at most one decimal point
RawCodes ==
    RawExamples \cup
    {raw \in UNION {[1..n -> RawChars] : n \in 0..MaxRaw} : Dots(raw) <= 1}

\* onChange of a time field with the raw text as value
TypeTimeCode(i, field, raw) ==
    /\ page \in {"SilencePage", "SplitPage"}
    /\ i \in DOMAIN segments
    /\ segments' = updateSegment(segments, segments[i].id, field, raw)
    /\ op' = Ran("update")
    /\ UNCHANGED <<page, reviewV, pollV, batchV, nextId, usedIds, markV, playerV, loading,
                   output, fileV, pendingLists, pendingLoads, reqV>>

TypeTimeCodes ==
    \E i \in DOMAIN segments, field \in {"startTime", "endTime"}, raw \in RawCodes :
        TypeTimeCode(i, field, raw)

InitFormat == \E p \in {"SilencePage", "SplitPage"} : InitPage(p)

NextFormat == TypeTimeCodes

SpecFormat == InitFormat /\ [][NextFormat]_vars


\* C12: the formatter is idempotent: for every raw text of at most 6 digits
\* with at most one decimal point put into a time field, formatting the
\* formatted text again gives the same text.
C12_FormatIdempotent ==
    [][\A i \in DOMAIN segments, field \in {"startTime", "endTime"}, raw \in RawCodes :
          (Len(raw) - Dots(raw) <= 6 /\ TypeTimeCode(i, field, raw))
              => LET once == segments'[i][field]
                 IN  FormatField(once) = once]_vars

\* a field of SilencePage holds a formatted text with two separators and a
\* decimal part
C12_FormattedWithDecimals ==
    /\ page = "SilencePage"
    /\ segments[1].startTime = <<"1", ":", "1", "1", ":", "1", "1", ".", "1">>

\* the grouping of at most 6 digits: SS, M..:SS, H..:MM:SS
Grouped(digits) ==
    LET n == Len(digits)
    IN  IF n <= 2 THEN digits
        ELSE IF n <= 4
             THEN SubSeq(digits, 1, n - 2) \o <<":">> \o SubSeq(digits, n - 1, n)
             ELSE SubSeq(digits, 1, n - 4) \o <<":">> \o SubSeq(digits, n - 3, n - 2)
                  \o <<":">> \o SubSeq(digits, n - 1, n)

FirstSix(digits) == SubSeq(digits, 1, IF Len(digits) < 6 THEN Len(digits) ELSE 6)

\* C13: the formatter keeps the first 6 integer digits and groups them by
\* their number: up to 2 bare, 3 or 4 as M..:SS, 5 or 6 as H..:MM:SS; so
\* "" gives "", "59" gives "59", "130" gives "1:30", "12345" gives "1:23:45",
\* "011223" gives "01:12:23" and a 7-digit text gives what its first 6 digits
\* give.
C13_GroupsByDigitCount ==
    [][\A i \in DOMAIN segments, field \in {"startTime", "endTime"} :
          /\ \A raw \in RawCodes :
                (Dots(raw) = 0 /\ TypeTimeCode(i, field, raw))
                    => segments'[i][field] = Grouped(FirstSix(raw))
          /\ TypeTimeCode(i, field, <<>>) => segments'[i][field] = <<>>
          /\ TypeTimeCode(i, field, <<"5", "9">>) => segments'[i][field] = <<"5", "9">>
          /\ TypeTimeCode(i, field, <<"1", "3", "0">>)
                => segments'[i][field] = <<"1", ":", "3", "0">>
          /\ TypeTimeCode(i, field, <<"1", "2", "3", "4", "5">>)
                => segments'[i][field] = <<"1", ":", "2", "3", ":", "4", "5">>
          /\ TypeTimeCode(i, field, <<"0", "1", "1", "2", "2", "3">>)
                => segments'[i][field] = <<"0", "1", ":", "1", "2", ":", "2", "3">>
          /\ TypeTimeCode(i, field, <<"0", "1", "1", "2", "2", "3", "4">>)
                => segments'[i][field] = <<"0", "1", ":", "1", "2", ":", "2", "3">>]_vars

\* "011223" and "130" have been put into the two time fields
C13_ExamplesTyped ==
    /\ segments[1].startTime = <<"0", "1", ":", "1", "2", ":", "2", "3">>
    /\ segments[1].endTime = <<"1", ":", "3", "0">>


----------------------------------------------------------------------------
(* updateSegment called with any id, field and text on lists of several    *)
(* segments, on SilencePage.tsx and on SplitPage.tsx                       *)

SegmentFields == {"note", "startTime", "endTime"}

\* texts put into a field: a word and a run of digits
UpdateTexts == {<<"a">>, <<"1", "3", "0">>}

\* updateSegment(id, field, value)
UpdateSegmentOf(id, field, value) ==
    /\ page \in {"SilencePage", "SplitPage"}
    /\ segments' = updateSegment(segments, id, field, value)
    /\ op' = Ran("update")
    /\ UNCHANGED <<page, reviewV, pollV, batchV, nextId, usedIds, markV, playerV, loading,
                   output, fileV, pendingLists, pendingLoads, reqV>>

UpdateSegmentAny ==
    \E id \in 1..MaxId, field \in SegmentFields, value \in UpdateTexts :
        UpdateSegmentOf(id, field, value)

NextUpdate ==
    \/ addSegment
    \/ DeleteSegment
    \/ UpdateSegmentAny

SpecUpdate == InitFormat /\ [][NextUpdate]_vars

\* C27: update(id, field, value) changes only the named field of the segment
\* with that id, storing the formatted text for a time field and the text
\* itself for the note; the other fields of that segment, every other
\* segment, the order and length of the list and the id counter stay as they
\* are, and an id that is not in the list changes nothing.
C27_UpdateTouchesOneField ==
    [][\A id \in 1..MaxId, field \in SegmentFields, value \in UpdateTexts :
          UpdateSegmentOf(id, field, value) =>
              /\ Len(segments') = Len(segments)
              /\ nextId' = nextId
              /\ \A i \in DOMAIN segments :
                     IF segments[i].id = id
                     THEN /\ segments'[i][field] =
                                 (IF field = "note" THEN value ELSE FormatField(value))
                          /\ segments'[i].id = id
                          /\ \A other \in SegmentFields \ {field} :
                                 segments'[i][other] = segments[i][other]
                     ELSE segments'[i] = segments[i]
              /\ (id \notin SegmentIds => segments' = segments)]_vars

\* a list of two segments in which the second was given a start time from
\* digits and a note, the first being untouched
C27_SecondRowUpdated ==
    /\ Len(segments) = 2
    /\ segments[1] = BlankSegment(segments[1].id)
    /\ segments[2].startTime = <<"1", ":", "3", "0">>
    /\ segments[2].note = <<"1", "3", "0">>
    /\ segments[2].endTime = <<>>

====
